---- MODULE Spec2Model ----
(***************************************************************************)
(* One inbound unary call travelling through the interceptor chain of the  *)
(* template gRPC service: Recovery, Logging, Entry, GeoIPLogging,          *)
(* EntryLogs, Prometheus, Timeout, Recovery and the business handler.      *)
(* The call is served by two execution units: "main" (the goroutine the    *)
(* transport runs the chain in) and "bg" (the goroutine the Timeout        *)
(* interceptor starts for the rest of the chain).                          *)
(***************************************************************************)
EXTENDS Integers, Sequences, FiniteSets, TLC

VARIABLES
    chain,        \* the interceptors chained for this call, outermost first
    dt,           \* the duration handed to Timeout(dt)
    ctxCanceled,  \* ctx.Err() != nil for the incoming (parent) context
    ctx2Err,      \* ctx2.Err() of Timeout's context.WithTimeout(ctx, dt)
    unit,         \* the two execution units (goroutines) of the call
    respChan,     \* Timeout's respChan, a channel of capacity 1
    panicChan,    \* Timeout's panicChan, a channel of capacity 1
    extraFields,  \* the logrus.Fields map EntryLogs puts into the context
    logs,         \* every record handed to a logger, in order
    inflight,     \* in-flight gauge of the Prometheus interceptor
    totalCalls,   \* completed-call counter of the Prometheus interceptor
    trace,        \* history: the stages entered and the stages exited so far
    handlerCalls, \* history: number of times the business handler was invoked
    handlerOut,   \* history: how the business handler ended, and ctx2.Err() then
    appends,      \* history: results of the handler's append-field calls
    wake,         \* history: what the Timeout guard's select woke up on
    \* the health-check aggregator (package healthcheck)
    hChecks,      \* h.Checks: the registered checks, in registration order
    callerErr,    \* Err() of the context RunChecks is called with
    runPC,        \* where RunChecks is: "idle", "loop", "wait", "returned"
    ress,         \* the slice ress of RunChecks
    wg,           \* the counter of the sync.WaitGroup of RunChecks
    check,        \* per check: its runCheck and the unit running its function
    report,       \* CheckingResults.Checks as returned by RunChecks
    \* the rollups of a CheckingResults value
    results,      \* c.Checks: the State of each check of the value
    rollup,       \* what each rollup method called on the value returned
    \* State and its JSON form
    stateSrc,     \* the State MarshalJSON is called on
    stateDst,     \* the State UnmarshalJSON is called on (*s)
    stateBytes,   \* the JSON text MarshalJSON returned or UnmarshalJSON is given
    stateErr,     \* the error the last of the two returned
    stateOps,     \* history: the calls made so far, in order
    \* the request context builder (package grpcd)
    incoming,     \* the incoming context: metadata headers and the peer
    entryConfigs, \* the EntryConfigs the builder is called with
    reqCtx,       \* the requestCtx BuildRequestContext returned
    \* the template service's Server (package internal/grpcd)
    serving,      \* Server.serving, an int32 read and written atomically
    mutex,        \* Server.m: the unit holding the mutex, or Nil
    grpcServer,   \* Server.s, the grpc.Server: "new", "serving", "stopped"
    servePC,      \* per unit calling Server.serve: where it is
    served,       \* history: the units that have been inside s.s.Serve
    echoReq,      \* the EchoRequest of the last UnaryEcho call
    echoRes       \* what that call returned

\* the variables of one call through the interceptor chain
callVars == <<chain, dt, ctxCanceled, ctx2Err, unit, respChan, panicChan,
              extraFields, logs, inflight, totalCalls, trace, handlerCalls,
              handlerOut, appends, wake>>

\* the variables of one run of the health-check aggregator
healthVars == <<hChecks, callerErr, runPC, ress, wg, check, report>>

\* a CheckingResults value and the results of its methods
rollupVars == <<results, rollup>>

\* a State and its JSON text
stateVars == <<stateSrc, stateDst, stateBytes, stateErr, stateOps>>

\* an incoming context and the request context built from it
buildVars == <<incoming, entryConfigs, reqCtx>>

\* the Server of the template service and its echo method
serverVars == <<serving, mutex, grpcServer, servePC, served, echoReq, echoRes>>

vars == <<callVars, healthVars, rollupVars, stateVars, buildVars, serverVars>>

\* what an action of the interceptor chain leaves alone
notCallVars == <<healthVars, rollupVars, stateVars, buildVars, serverVars>>

\* what an action of the health-check aggregator leaves alone
notHealthVars == <<callVars, rollupVars, stateVars, buildVars, serverVars>>

\* what a rollup method leaves alone
notRollupVars == <<callVars, healthVars, stateVars, buildVars, serverVars>>

\* what the JSON methods of State leave alone
notStateVars == <<callVars, healthVars, rollupVars, buildVars, serverVars>>

\* what the request context builder leaves alone
notBuildVars == <<callVars, healthVars, rollupVars, stateVars, serverVars>>

\* what the Server's methods leave alone
notServerVars == <<callVars, healthVars, rollupVars, stateVars, buildVars>>

\* the health-check aggregator before anything is registered or run
HealthIdle ==
    /\ hChecks = <<>>
    /\ callerErr = "none"
    /\ runPC = "idle"
    /\ ress = <<>>
    /\ wg = 0
    /\ check = <<>>
    /\ report = <<>>

\* no CheckingResults value is looked at
RollupIdle ==
    /\ results = <<>>
    /\ rollup = <<>>

\* no State is serialized
StateIdle ==
    /\ stateSrc = 0
    /\ stateDst = 0
    /\ stateBytes = [kind |-> "null", str |-> ""]
    /\ stateErr = "nil"
    /\ stateOps = <<>>

\* no request context is built
BuildIdle ==
    /\ incoming = [trace |-> <<>>, xff |-> <<>>, realip |-> <<>>, peer |-> <<>>]
    /\ entryConfigs = [AllowTraceIDFromRequest |-> FALSE]
    /\ reqCtx = [built |-> FALSE, requestID |-> <<>>, traceID |-> <<>>,
                 remoteAddr |-> <<>>]

\* the Server as NewServer returns it; no echo call was made
ServerIdle ==
    /\ serving = 0
    /\ mutex = "nil"
    /\ grpcServer = "new"
    /\ servePC = [u \in {"a", "b"} |-> "idle"]
    /\ served = {}
    /\ echoReq = [isNil |-> TRUE, body |-> "", len |-> 0]
    /\ echoRes = [called |-> FALSE, isNil |-> TRUE, body |-> "", len |-> 0, code |-> "OK"]

------------------------------------------------------------------------------
(* Bounds and program constants *)

\* the handler calls an append-field function at most this many times
MaxAppends == 2

\* defaultTimeoutRPC = time.Second * 5, in seconds
defaultTimeoutRPC == 5

Units == {"main", "bg"}

\* a variant of the chain with the metrics stage inside the Timeout guard
FullChainMetricsInside == <<"Recovery", "Logging", "Entry", "GeoIPLogging", "EntryLogs",
                            "Timeout", "Prometheus", "Recovery">>

\* the chain newUnaryInterceptor builds
FullChain == <<"Recovery", "Logging", "Entry", "GeoIPLogging", "EntryLogs",
               "Prometheus", "Timeout", "Recovery">>

\* the chains a call is checked with: the server's chain and single guards
Chains == {FullChain, <<"Timeout">>, <<"Recovery">>, <<"EntryLogs">>}

\* durations Timeout(dt) is built with: negative, zero, positive
DtValues == {-1, 0, defaultTimeoutRPC}

------------------------------------------------------------------------------
(* Values *)

Nil == "nil"

\* a nil error; status.Code(nil) is OK
NoErr == [code |-> "OK", msg |-> ""]

StatusError(c, m) == [code |-> c, msg |-> m]

\* what a business handler may return
HandlerResps == {Nil, "resp"}
HandlerErrs == {NoErr,
                StatusError("InvalidArgument", "Message is too long"),
                StatusError("Canceled", "handler gave up")}

\* what a business handler may panic with; Nil is panic(nil)
PanicValues == {Nil, "boom", "bang"}

\* keys and values a business handler may append to the entry logger
AppendKeys == {"app", "duration", "error"}
AppendValue == "v"

EmptyFields == [k \in {} |-> ""]

\* logrus WithFields: the later fields win
WithFields(f, g) ==
    [k \in (DOMAIN f) \cup (DOMAIN g) |-> IF k \in DOMAIN g THEN g[k] ELSE f[k]]

WithField(f, k, v) == WithFields(f, [x \in {k} |-> v])

\* logrus.NewEntry(logrus.StandardLogger())
StdLogger == [sink |-> "std", fields |-> EmptyFields]

\* the entry newUnaryInterceptor is given
ServiceLogger == [sink |-> "service", fields |-> [x \in {"service"} |-> "test"]]

\* context.Background() with nothing attached; bound tells whose Done and
\* Err the context has: the incoming context's, or those of Timeout's ctx2
EmptyCtx == [hasLogger |-> FALSE, logger |-> StdLogger,
             hasReqCtx |-> FALSE, hasExtra |-> FALSE, bound |-> "ctx"]

\* context.WithTimeout(ctx, dt) of Timeout: ctx2
WithTimeout(ctx) == [ctx EXCEPT !.bound = "ctx2"]

\* Logger(ctx): always returns a logger
Logger(ctx) == IF ctx.hasLogger THEN ctx.logger ELSE StdLogger

NewContextWithLogger(ctx, l) == [ctx EXCEPT !.hasLogger = TRUE, !.logger = l]

NewContextWithRequestCtx(ctx) == [ctx EXCEPT !.hasReqCtx = TRUE]

newContextWithEntryLogsExtraFields(ctx) == [ctx EXCEPT !.hasExtra = TRUE]

\* one record handed to logrus
LogRecord(l, level, msg, extra) ==
    [sink |-> l.sink, level |-> level, msg |-> msg,
     fields |-> WithFields(l.fields, extra)]

------------------------------------------------------------------------------
(* Pure functions of the interceptors *)

ErrNoEntryLogger ==
    "cannot find entry logger in the context, did you forget to chain EntryLogs interceptor?"

\* AppendFieldsIntoEntryLogger(ctx, fields) on the map `data` the context of
\* the call refers to: the error returned and the map afterwards
AppendFieldsIntoEntryLogger(ctx, data, fields) ==
    IF ~ctx.hasExtra
    THEN [err |-> ErrNoEntryLogger, data |-> data]
    ELSE [err |-> Nil, data |-> WithFields(data, fields)]

\* a variant that writes without looking for the map in the context
AppendFieldUnchecked(ctx, data, key, value) ==
    [err |-> Nil, data |-> WithField(data, key, value)]

\* a variant that drops a key that is already in the map
AppendFieldToggles(ctx, data, key, value) ==
    IF ~ctx.hasExtra
    THEN [err |-> "cannot find entry logger in the context, did you forget to chain EntryLogs interceptor?",
          data |-> data]
    ELSE [err |-> "nil",
          data |-> IF key \in DOMAIN data
                   THEN [x \in (DOMAIN data) \ {key} |-> data[x]]
                   ELSE [x \in (DOMAIN data) \cup {key} |-> IF x = key THEN value ELSE data[x]]]

\* AppendFieldIntoEntryLogger(ctx, key, value)
AppendFieldIntoEntryLogger(ctx, data, key, value) ==
    IF ~ctx.hasExtra
    THEN [err |-> ErrNoEntryLogger, data |-> data]
    ELSE [err |-> Nil, data |-> WithField(data, key, value)]

NilRes == [resp |-> Nil, err |-> NoErr]

CanceledByCaller == [resp |-> Nil, err |-> StatusError("Canceled", "Canceled by caller")]

DeadlineExceeded == [resp |-> Nil, err |-> StatusError("DeadlineExceeded", "Deadline exceeded")]

InternalServerError == [resp |-> Nil, err |-> StatusError("Internal", "InternalServerError")]

\* a variant that also treats a returned error as a fault
RecoveryMasksErrors(mode, p, res, ctx) ==
    IF mode = "panic" \/ res.err # NoErr
    THEN [res  |-> [resp |-> Nil, err |-> StatusError("Internal", "InternalServerError")],
          recs |-> <<[sink |-> (IF ctx.hasLogger THEN ctx.logger ELSE StdLogger).sink,
                      level |-> "error", msg |-> "Caught panic in request",
                      fields |-> [k \in {"stacktrace"} |-> "stack"]]>>]
    ELSE [res |-> res, recs |-> <<>>]

\* Recovery's deferred function, run when the wrapped handler has returned
\* (mode "ret", result res) or is panicking (mode "panic", value p):
\* recover() yields p, and a nil p is not told apart from no panic; the
\* named results are still zero when the handler did not return.
RecoveryOutcome(mode, p, res, ctx) ==
    IF mode = "panic" /\ p # Nil
    THEN [res  |-> InternalServerError,
          recs |-> <<LogRecord(Logger(ctx), "error", "Caught panic in request",
                               [k \in {"stacktrace", "error"} |->
                                  IF k = "error" THEN p ELSE "stack"])>>]
    ELSE IF mode = "panic"
    THEN [res |-> NilRes, recs |-> <<>>]
    ELSE [res |-> res, recs |-> <<>>]

\* a variant without the check before the handler is started
TimeoutNeverPreCanceled(canceled) == FALSE

\* Timeout: the check of ctx.Err() before the handler is started
TimeoutPreCanceled(canceled) == canceled

\* a variant that asks ctx2.Err() instead of the parent's ctx.Err()
TimeoutOnDoneAsksCtx2(parentCanceled, ctx) ==
    [res |-> [resp |-> Nil,
              err |-> IF ctx2Err = "Canceled"
                      THEN StatusError("Canceled", "Canceled by caller")
                      ELSE StatusError("DeadlineExceeded", "Deadline exceeded")],
     rec |-> LogRecord(Logger(ctx), "warning", "Caught timeout while processing the request",
                       [k \in {"error", "timeout", "duration"} |-> k])]

\* Timeout, case <-ctx2.Done(): the parent's ctx.Err() decides the result
TimeoutOnDone(parentCanceled, ctx) ==
    IF parentCanceled
    THEN [res |-> CanceledByCaller,
          rec |-> LogRecord(Logger(ctx), "warning",
                            "Caught canceled while processing the request",
                            [k \in {"error", "timeout", "duration"} |-> k])]
    ELSE [res |-> DeadlineExceeded,
          rec |-> LogRecord(Logger(ctx), "warning",
                            "Caught timeout while processing the request",
                            [k \in {"error", "timeout", "duration"} |-> k])]

\* a variant that logs every completion at info level
EntryLogsRecordInfoOnly(res, ctx, extra) ==
    LogRecord([sink |-> Logger(ctx).sink, fields |-> WithFields(Logger(ctx).fields, extra)],
              "info", "Request completed", EmptyFields)

\* a variant in which the appended fields are laid over the computed ones
EntryLogsRecordExtraLast(res, ctx, extra) ==
    LET logger == [sink   |-> Logger(ctx).sink,
                   fields |-> WithFields(WithFields(Logger(ctx).fields,
                                [k \in {"duration", "response_status",
                                        "response_status_string"} |->
                                   IF k = "duration" THEN "elapsed"
                                   ELSE res.err.code]), extra)]
    IN  IF res.err # NoErr
        THEN LogRecord(logger, "error", "Request completed with error",
                       [k \in {"error"} |-> res.err.msg])
        ELSE LogRecord(logger, "info", "Request completed", EmptyFields)

\* EntryLogs after the inner handler returned res: the completion record
EntryLogsRecord(res, ctx, extra) ==
    LET logger == [sink   |-> Logger(ctx).sink,
                   fields |-> WithFields(WithFields(Logger(ctx).fields, extra),
                                [k \in {"duration", "response_status",
                                        "response_status_string"} |->
                                   IF k = "duration" THEN "elapsed"
                                   ELSE res.err.code])]
    IN  IF res.err # NoErr
        THEN LogRecord(logger, "error", "Request completed with error",
                       [k \in {"error"} |-> res.err.msg])
        ELSE LogRecord(logger, "info", "Request completed", EmptyFields)

\* Entry: the fields of the call's identity added to the logger
EntryFields ==
    [k \in {"request_id", "trace_id", "remote_addr", "user_agent",
            "grpc_service", "grpc_method"} |-> k]

\* GeoIPLogging without a GeoIPLookup before it: GeoIP(ctx) carries an error
GeoIPFields == "geoip: cannot found geoip data in the context"

------------------------------------------------------------------------------
(* Execution units *)

IdleUnit == [mode |-> "idle", next |-> 0, stack |-> <<>>, ctx |-> EmptyCtx,
             res |-> NilRes, pval |-> Nil]

Frame(stage, idx, ctx) == [stage |-> stage, idx |-> idx, ctx |-> ctx]

Top(u) == unit[u].stack[Len(unit[u].stack)]

Pop(s) == SubSeq(s, 1, Len(s) - 1)

HandlerIdx == Len(chain) + 1

\* the history of a call: stage idx (the handler is HandlerIdx) was entered, exited
Entered(t, idx) == [t EXCEPT !.entered = @ \cup {idx}]

Exited(t, idx) == [t EXCEPT !.exited = @ \cup {idx}]

\* the history of a call: the state of the incoming context at the moment
\* the Timeout guard was entered
AtGuard(t, canceled) == [t EXCEPT !.guard = IF canceled THEN "canceled" ELSE "live"]

\* the unit is about to invoke the interceptor `stage`
Calls(u, stage) ==
    /\ unit[u].mode = "call"
    /\ unit[u].next <= Len(chain)
    /\ chain[unit[u].next] = stage

\* the interceptor `stage` is the innermost active one of the unit and its
\* wrapped handler has returned or is panicking
Leaves(u, stage) ==
    /\ unit[u].mode \in {"ret", "panic"}
    /\ unit[u].stack # <<>>
    /\ Top(u).stage = stage

\* the interceptor pushes its frame and invokes the next one with ctx
Descend(u, stage, ctx) ==
    /\ unit' = [unit EXCEPT ![u].stack = Append(@, Frame(stage, unit[u].next, unit[u].ctx)),
                            ![u].next = @ + 1,
                            ![u].ctx = ctx]
    /\ trace' = Entered(trace, unit[u].next)

\* cancel() of ctx2, deferred by Timeout
CancelCtx2(e) == IF e = "none" THEN "Canceled" ELSE e

Modes == {"idle", "call", "handler", "ret", "panic", "select", "woke", "done"}

Ctx2Errs == {"unset", "none", "Canceled", "DeadlineExceeded"}

TypeOK ==
    /\ chain \in Chains
    /\ dt \in DtValues
    /\ ctxCanceled \in BOOLEAN
    /\ ctx2Err \in Ctx2Errs
    /\ \A u \in Units :
         /\ unit[u].mode \in Modes
         /\ unit[u].next \in 0..HandlerIdx
         /\ Len(unit[u].stack) <= Len(chain)
         /\ unit[u].res.resp \in HandlerResps
         /\ unit[u].pval \in PanicValues
    /\ unit["bg"].mode \notin {"select", "woke"}
    /\ Len(respChan) <= 1
    /\ Len(panicChan) <= 1
    /\ DOMAIN extraFields \subseteq AppendKeys \cup {"geoip"}
    /\ inflight \in 0..1
    /\ Len(totalCalls) <= 1
    /\ trace.entered \subseteq 1..HandlerIdx
    /\ trace.exited \subseteq trace.entered
    /\ trace.guard \in {"none", "canceled", "live"}
    /\ handlerCalls \in 0..1
    /\ handlerOut.kind \in {"none", "ret", "panic"}
    /\ handlerOut.ctx2Err \in Ctx2Errs
    /\ handlerOut.sent \in Ctx2Errs
    /\ Len(appends) <= MaxAppends + 1
    /\ wake \in {"none", "panic", "resp", "done", "doneCanceled", "doneDeadline"}

Init ==
    /\ chain \in Chains
    /\ dt \in (IF chain = <<"Timeout">> THEN DtValues ELSE {defaultTimeoutRPC})
    /\ ctxCanceled \in BOOLEAN
    /\ ctx2Err = "unset"
    /\ unit = [u \in Units |->
                 IF u = "main" THEN [IdleUnit EXCEPT !.mode = "call", !.next = 1]
                 ELSE IdleUnit]
    /\ respChan = <<>>
    /\ panicChan = <<>>
    /\ extraFields = EmptyFields
    /\ logs = <<>>
    /\ inflight = 0
    /\ totalCalls = <<>>
    /\ trace = [entered |-> {}, exited |-> {}, guard |-> "none"]
    /\ handlerCalls = 0
    /\ handlerOut = [kind |-> "none", res |-> NilRes, pval |-> Nil,
                     ctx2Err |-> "unset", sent |-> "unset"]
    /\ appends = <<>>
    /\ wake = "none"
    /\ HealthIdle
    /\ RollupIdle
    /\ StateIdle
    /\ BuildIdle
    /\ ServerIdle

\* no call is in progress
CallIdle ==
    /\ chain = <<"Recovery">>
    /\ dt = defaultTimeoutRPC
    /\ ctxCanceled = FALSE
    /\ ctx2Err = "unset"
    /\ unit = [u \in Units |-> IdleUnit]
    /\ respChan = <<>>
    /\ panicChan = <<>>
    /\ extraFields = EmptyFields
    /\ logs = <<>>
    /\ inflight = 0
    /\ totalCalls = <<>>
    /\ trace = [entered |-> {}, exited |-> {}, guard |-> "none"]
    /\ handlerCalls = 0
    /\ handlerOut = [kind |-> "none", res |-> NilRes, pval |-> Nil,
                     ctx2Err |-> "unset", sent |-> "unset"]
    /\ appends = <<>>
    /\ wake = "none"

------------------------------------------------------------------------------
(* Entering the interceptors *)

\* Recovery: installs its deferred function and calls handler(ctx, req)
EnterRecovery(u) ==
    /\ Calls(u, "Recovery")
    /\ Descend(u, "Recovery", unit[u].ctx)
    /\ UNCHANGED notCallVars
    /\ UNCHANGED <<chain, dt, ctxCanceled, ctx2Err, respChan, panicChan,
                   extraFields, logs, inflight, totalCalls, handlerCalls,
                   handlerOut, appends, wake>>

\* Logging(l): ctx = NewContextWithLogger(ctx, logger)
EnterLogging(u) ==
    /\ Calls(u, "Logging")
    /\ Descend(u, "Logging", NewContextWithLogger(unit[u].ctx, ServiceLogger))
    /\ UNCHANGED notCallVars
    /\ UNCHANGED <<chain, dt, ctxCanceled, ctx2Err, respChan, panicChan,
                   extraFields, logs, inflight, totalCalls, handlerCalls,
                   handlerOut, appends, wake>>

\* Entry(c): builds the request context and the logger carrying its fields
EnterEntry(u) ==
    /\ Calls(u, "Entry")
    /\ LET logger == [Logger(unit[u].ctx) EXCEPT !.fields = WithFields(@, EntryFields)]
       IN  Descend(u, "Entry",
                   NewContextWithLogger(NewContextWithRequestCtx(unit[u].ctx), logger))
    /\ UNCHANGED notCallVars
    /\ UNCHANGED <<chain, dt, ctxCanceled, ctx2Err, respChan, panicChan,
                   extraFields, logs, inflight, totalCalls, handlerCalls,
                   handlerOut, appends, wake>>

\* GeoIPLogging: appends "geoip" to the entry logger (the error is dropped)
\* and to the logger of the context
EnterGeoIPLogging(u) ==
    /\ Calls(u, "GeoIPLogging")
    /\ LET r == AppendFieldIntoEntryLogger(unit[u].ctx, extraFields, "geoip", GeoIPFields)
           l == [Logger(unit[u].ctx) EXCEPT !.fields = WithField(@, "geoip", GeoIPFields)]
       IN  /\ extraFields' = r.data
           /\ appends' = Append(appends, [by |-> "GeoIPLogging", err |-> r.err,
                                        scope |-> unit[u].ctx.hasExtra,
                                        fields |-> [x \in {"geoip"} |-> GeoIPFields],
                                        after |-> r.data])
           /\ Descend(u, "GeoIPLogging", NewContextWithLogger(unit[u].ctx, l))
    /\ UNCHANGED notCallVars
    /\ UNCHANGED <<chain, dt, ctxCanceled, ctx2Err, respChan, panicChan,
                   logs, inflight, totalCalls, handlerCalls, handlerOut, wake>>

\* EntryLogs: a fresh extra-field map is put into the context
EnterEntryLogs(u) ==
    /\ Calls(u, "EntryLogs")
    /\ extraFields' = EmptyFields
    /\ Descend(u, "EntryLogs", newContextWithEntryLogsExtraFields(unit[u].ctx))
    /\ UNCHANGED notCallVars
    /\ UNCHANGED <<chain, dt, ctxCanceled, ctx2Err, respChan, panicChan,
                   logs, inflight, totalCalls, handlerCalls, handlerOut,
                   appends, wake>>

\* Prometheus: the in-flight gauge goes up on entry
EnterPrometheus(u) ==
    /\ Calls(u, "Prometheus")
    /\ inflight' = inflight + 1
    /\ Descend(u, "Prometheus", unit[u].ctx)
    /\ UNCHANGED notCallVars
    /\ UNCHANGED <<chain, dt, ctxCanceled, ctx2Err, respChan, panicChan,
                   extraFields, logs, totalCalls, handlerCalls, handlerOut,
                   appends, wake>>

\* Timeout, ctx.Err() != nil on entry: Canceled, the handler is not called
TimeoutCanceledOnEntry ==
    /\ Calls("main", "Timeout")
    /\ TimeoutPreCanceled(ctxCanceled)
    /\ logs' = Append(logs, LogRecord(Logger(unit["main"].ctx), "warning",
                        "Caught canceled before processing the request",
                        [k \in {"error"} |-> "context canceled"]))
    /\ unit' = [unit EXCEPT !["main"].mode = "ret", !["main"].res = CanceledByCaller]
    /\ trace' = AtGuard(Exited(Entered(trace, unit["main"].next), unit["main"].next),
                        ctxCanceled)
    /\ UNCHANGED notCallVars
    /\ UNCHANGED <<chain, dt, ctxCanceled, ctx2Err, respChan, panicChan,
                   extraFields, inflight, totalCalls, handlerCalls, handlerOut,
                   appends, wake>>

\* a variant that takes only a negative duration for "no timeout"
NoTimeoutNegativeOnly(d) == d < 0

\* Timeout: if dt <= 0, no timeout is configured
NoTimeout(d) == d <= 0

\* Timeout, dt <= 0: return handler(ctx, req), in the caller's own unit
TimeoutDirect ==
    /\ Calls("main", "Timeout")
    /\ ~TimeoutPreCanceled(ctxCanceled)
    /\ NoTimeout(dt)
    /\ unit' = [unit EXCEPT
                  !["main"].stack = Append(@, Frame("Timeout", unit["main"].next,
                                                    unit["main"].ctx)),
                  !["main"].next = @ + 1]
    /\ trace' = AtGuard(Entered(trace, unit["main"].next), ctxCanceled)
    /\ UNCHANGED notCallVars
    /\ UNCHANGED <<chain, dt, ctxCanceled, ctx2Err, respChan, panicChan,
                   extraFields, logs, inflight, totalCalls, handlerCalls,
                   handlerOut, appends, wake>>

\* a variant that starts the handler with the guard's ctx2
HandlerCtxWithDeadline(ctx, ctx2) == ctx2

\* resp, err := handler(ctx, req): the context the started unit calls with
HandlerCtx(ctx, ctx2) == ctx

\* Timeout, dt > 0: ctx2 is created, the handler is started in its own unit
\* with the original ctx, and the guard goes to its select
TimeoutSpawn ==
    /\ Calls("main", "Timeout")
    /\ ~TimeoutPreCanceled(ctxCanceled)
    /\ ~NoTimeout(dt)
    /\ unit["bg"].mode = "idle"
    /\ ctx2Err' = "none"
    /\ unit' = [unit EXCEPT
                  !["main"].stack = Append(@, Frame("Timeout", unit["main"].next,
                                                    unit["main"].ctx)),
                  !["main"].mode = "select",
                  !["bg"] = [IdleUnit EXCEPT !.mode = "call",
                                             !.next = unit["main"].next + 1,
                                             !.ctx = HandlerCtx(unit["main"].ctx,
                                                        WithTimeout(unit["main"].ctx))]]
    /\ trace' = AtGuard(Entered(trace, unit["main"].next), ctxCanceled)
    /\ UNCHANGED notCallVars
    /\ UNCHANGED <<chain, dt, ctxCanceled, respChan, panicChan, extraFields,
                   logs, inflight, totalCalls, handlerCalls, handlerOut,
                   appends, wake>>

------------------------------------------------------------------------------
(* The business handler *)

HandlerStart(u) ==
    /\ unit[u].mode = "call"
    /\ unit[u].next = HandlerIdx
    /\ unit' = [unit EXCEPT ![u].mode = "handler"]
    /\ handlerCalls' = handlerCalls + 1
    /\ trace' = Entered(trace, HandlerIdx)
    /\ UNCHANGED notCallVars
    /\ UNCHANGED <<chain, dt, ctxCanceled, ctx2Err, respChan, panicChan,
                   extraFields, logs, inflight, totalCalls, handlerOut,
                   appends, wake>>

NHandlerAppends == Cardinality({i \in 1..Len(appends) : appends[i].by = "handler"})

\* the handler calls AppendFieldIntoEntryLogger(ctx, key, value)
HandlerAppendField(u) ==
    /\ unit[u].mode = "handler"
    /\ NHandlerAppends < MaxAppends
    /\ \E k \in AppendKeys :
         LET r == AppendFieldIntoEntryLogger(unit[u].ctx, extraFields, k, AppendValue)
         IN  /\ extraFields' = r.data
             /\ appends' = Append(appends, [by |-> "handler", err |-> r.err,
                                            scope |-> unit[u].ctx.hasExtra,
                                            fields |-> [x \in {k} |-> AppendValue],
                                            after |-> r.data])
    /\ UNCHANGED notCallVars
    /\ UNCHANGED <<chain, dt, ctxCanceled, ctx2Err, unit, respChan, panicChan,
                   logs, inflight, totalCalls, trace, handlerCalls, handlerOut, wake>>

\* the handler calls AppendFieldsIntoEntryLogger(ctx, fields)
HandlerAppendFields(u) ==
    /\ unit[u].mode = "handler"
    /\ NHandlerAppends < MaxAppends
    /\ \E ks \in SUBSET AppendKeys :
         LET r == AppendFieldsIntoEntryLogger(unit[u].ctx, extraFields,
                                              [k \in ks |-> AppendValue])
         IN  /\ extraFields' = r.data
             /\ appends' = Append(appends, [by |-> "handler", err |-> r.err,
                                            scope |-> unit[u].ctx.hasExtra,
                                            fields |-> [k \in ks |-> AppendValue],
                                            after |-> r.data])
    /\ UNCHANGED notCallVars
    /\ UNCHANGED <<chain, dt, ctxCanceled, ctx2Err, unit, respChan, panicChan,
                   logs, inflight, totalCalls, trace, handlerCalls, handlerOut, wake>>

HandlerReturn(u) ==
    /\ unit[u].mode = "handler"
    /\ \E resp \in HandlerResps, err \in HandlerErrs :
         /\ unit' = [unit EXCEPT ![u].mode = "ret",
                                 ![u].res = [resp |-> resp, err |-> err]]
         /\ handlerOut' = [kind |-> "ret", res |-> [resp |-> resp, err |-> err],
                           pval |-> Nil, ctx2Err |-> ctx2Err, sent |-> "unset"]
    /\ trace' = Exited(trace, HandlerIdx)
    /\ UNCHANGED notCallVars
    /\ UNCHANGED <<chain, dt, ctxCanceled, ctx2Err, respChan, panicChan,
                   extraFields, logs, inflight, totalCalls, handlerCalls,
                   appends, wake>>

HandlerPanic(u) ==
    /\ unit[u].mode = "handler"
    /\ \E p \in PanicValues :
         /\ unit' = [unit EXCEPT ![u].mode = "panic", ![u].pval = p]
         /\ handlerOut' = [kind |-> "panic", res |-> NilRes, pval |-> p,
                           ctx2Err |-> ctx2Err, sent |-> "unset"]
    /\ trace' = Exited(trace, HandlerIdx)
    /\ UNCHANGED notCallVars
    /\ UNCHANGED <<chain, dt, ctxCanceled, ctx2Err, respChan, panicChan,
                   extraFields, logs, inflight, totalCalls, handlerCalls,
                   appends, wake>>

------------------------------------------------------------------------------
(* Leaving the interceptors *)

\* the unit leaves its innermost interceptor with the given mode and result
Ascend(u, mode, res) ==
    /\ unit' = [unit EXCEPT ![u].stack = Pop(@), ![u].mode = mode, ![u].res = res]
    /\ trace' = Exited(trace, Top(u).idx)

\* Recovery: the deferred function runs on return and on panic
ExitRecovery(u) ==
    /\ Leaves(u, "Recovery")
    /\ LET o == RecoveryOutcome(unit[u].mode, unit[u].pval, unit[u].res, Top(u).ctx)
       IN  /\ logs' = logs \o o.recs
           /\ Ascend(u, "ret", o.res)
    /\ UNCHANGED notCallVars
    /\ UNCHANGED <<chain, dt, ctxCanceled, ctx2Err, respChan, panicChan,
                   extraFields, inflight, totalCalls, handlerCalls, handlerOut,
                   appends, wake>>

\* Logging, Entry, GeoIPLogging and Timeout with dt <= 0 end with
\* return handler(ctx, req): results and panics pass through
ExitPassThrough(u) ==
    /\ \E st \in {"Logging", "Entry", "GeoIPLogging", "Timeout"} : Leaves(u, st)
    /\ Ascend(u, unit[u].mode, unit[u].res)
    /\ UNCHANGED notCallVars
    /\ UNCHANGED <<chain, dt, ctxCanceled, ctx2Err, respChan, panicChan,
                   extraFields, logs, inflight, totalCalls, handlerCalls,
                   handlerOut, appends, wake>>

\* EntryLogs: after the handler returned, one completion record; nothing is
\* deferred, so a panic passes through without a record
ExitEntryLogs(u) ==
    /\ Leaves(u, "EntryLogs")
    /\ logs' = IF unit[u].mode = "ret"
               THEN Append(logs, EntryLogsRecord(unit[u].res,
                                   newContextWithEntryLogsExtraFields(Top(u).ctx),
                                   extraFields))
               ELSE logs
    /\ Ascend(u, unit[u].mode, unit[u].res)
    /\ UNCHANGED notCallVars
    /\ UNCHANGED <<chain, dt, ctxCanceled, ctx2Err, respChan, panicChan,
                   extraFields, inflight, totalCalls, handlerCalls, handlerOut,
                   appends, wake>>

\* Prometheus: on exit the gauge goes down and the call is counted by code
ExitPrometheus(u) ==
    /\ Leaves(u, "Prometheus")
    /\ inflight' = inflight - 1
    /\ totalCalls' = Append(totalCalls,
                            IF unit[u].mode = "ret" THEN unit[u].res.err.code
                            ELSE "Unknown")
    /\ Ascend(u, unit[u].mode, unit[u].res)
    /\ UNCHANGED notCallVars
    /\ UNCHANGED <<chain, dt, ctxCanceled, ctx2Err, respChan, panicChan,
                   extraFields, logs, handlerCalls, handlerOut, appends, wake>>

------------------------------------------------------------------------------
(* The Timeout guard's select and the unit it started *)

\* The guard's unit is at its select, reached or not yet reached: the
\* scheduler may hold the unit back between the go statement and the select
\* for any time, so whenever several cases are ready any of them may be the
\* one taken (Go chooses among the ready cases at random).
Selecting == unit["main"].mode = "select"

\* case r := <-panicChan: panic(r), in the waiting unit
SelectPanic ==
    /\ Selecting
    /\ panicChan # <<>>
    /\ panicChan' = Tail(panicChan)
    /\ unit' = [unit EXCEPT !["main"].stack = Pop(@),
                            !["main"].mode = "panic",
                            !["main"].pval = Head(panicChan)]
    /\ trace' = Exited(trace, Top("main").idx)
    /\ ctx2Err' = CancelCtx2(ctx2Err)
    /\ wake' = "panic"
    /\ UNCHANGED notCallVars
    /\ UNCHANGED <<chain, dt, ctxCanceled, respChan, extraFields, logs,
                   inflight, totalCalls, handlerCalls, handlerOut, appends>>

\* case r := <-respChan: return r.Response, r.Error
SelectResp ==
    /\ Selecting
    /\ respChan # <<>>
    /\ respChan' = Tail(respChan)
    /\ unit' = [unit EXCEPT !["main"].stack = Pop(@),
                            !["main"].mode = "ret",
                            !["main"].res = Head(respChan)]
    /\ trace' = Exited(trace, Top("main").idx)
    /\ ctx2Err' = CancelCtx2(ctx2Err)
    /\ wake' = "resp"
    /\ UNCHANGED notCallVars
    /\ UNCHANGED <<chain, dt, ctxCanceled, panicChan, extraFields, logs,
                   inflight, totalCalls, handlerCalls, handlerOut, appends>>

\* case <-ctx2.Done(): the guard wakes up; the parent is checked next
SelectDone ==
    /\ Selecting
    /\ ctx2Err \in {"Canceled", "DeadlineExceeded"}
    /\ unit' = [unit EXCEPT !["main"].mode = "woke"]
    /\ wake' = "done"
    /\ UNCHANGED notCallVars
    /\ UNCHANGED <<chain, dt, ctxCanceled, ctx2Err, respChan, panicChan,
                   extraFields, logs, inflight, totalCalls, trace,
                   handlerCalls, handlerOut, appends>>

\* if err := ctx.Err(); err != nil: Canceled, otherwise DeadlineExceeded
CheckParent ==
    /\ unit["main"].mode = "woke"
    /\ LET o == TimeoutOnDone(ctxCanceled, Top("main").ctx)
       IN  /\ logs' = Append(logs, o.rec)
           /\ unit' = [unit EXCEPT !["main"].stack = Pop(@),
                                   !["main"].mode = "ret",
                                   !["main"].res = o.res]
    /\ trace' = Exited(trace, Top("main").idx)
    /\ wake' = IF ctxCanceled THEN "doneCanceled" ELSE "doneDeadline"
    /\ UNCHANGED notCallVars
    /\ UNCHANGED <<chain, dt, ctxCanceled, ctx2Err, respChan, panicChan,
                   extraFields, inflight, totalCalls, handlerCalls, handlerOut,
                   appends>>

\* a variant with a respChan without buffer: the send waits for the guard
\* to be at its select
BgSendUnbuffered ==
    /\ unit["bg"].mode = "ret"
    /\ unit["bg"].stack = <<>>
    /\ unit["main"].mode = "select"
    /\ Len(respChan) < 1
    /\ respChan' = Append(respChan, unit["bg"].res)
    /\ unit' = [unit EXCEPT !["bg"].mode = "done"]
    /\ handlerOut' = [handlerOut EXCEPT !.sent = ctx2Err]
    /\ UNCHANGED notCallVars
    /\ UNCHANGED <<chain, dt, ctxCanceled, ctx2Err, panicChan, extraFields,
                   logs, inflight, totalCalls, trace, handlerCalls,
                   appends, wake>>

\* a variant in which the started unit also writes its result into the
\* results the guard returns (results shared between the two units)
BgSendSharesResults ==
    /\ unit["bg"].mode = "ret"
    /\ unit["bg"].stack = <<>>
    /\ Len(respChan) < 1
    /\ respChan' = Append(respChan, unit["bg"].res)
    /\ unit' = [unit EXCEPT !["bg"].mode = "done", !["main"].res = unit["bg"].res]
    /\ handlerOut' = [handlerOut EXCEPT !.sent = ctx2Err]
    /\ UNCHANGED notCallVars
    /\ UNCHANGED <<chain, dt, ctxCanceled, ctx2Err, panicChan, extraFields,
                   logs, inflight, totalCalls, trace, handlerCalls,
                   appends, wake>>

\* the started unit: respChan <- &unaryResponse{resp, err}
BgSend ==
    /\ unit["bg"].mode = "ret"
    /\ unit["bg"].stack = <<>>
    /\ Len(respChan) < 1
    /\ respChan' = Append(respChan, unit["bg"].res)
    /\ unit' = [unit EXCEPT !["bg"].mode = "done"]
    /\ handlerOut' = [handlerOut EXCEPT !.sent = ctx2Err]
    /\ UNCHANGED notCallVars
    /\ UNCHANGED <<chain, dt, ctxCanceled, ctx2Err, panicChan, extraFields,
                   logs, inflight, totalCalls, trace, handlerCalls,
                   appends, wake>>

\* a variant without the deferred trap: the fault leaves the started unit and
\* takes the caller's unit down with it
BgRecoverMissing ==
    /\ unit["bg"].mode = "panic"
    /\ unit["bg"].stack = <<>>
    /\ unit' = [unit EXCEPT !["bg"].mode = "done",
                            !["main"].mode = "panic",
                            !["main"].pval = unit["bg"].pval]
    /\ UNCHANGED notCallVars
    /\ UNCHANGED <<chain, dt, ctxCanceled, ctx2Err, respChan, panicChan,
                   extraFields, logs, inflight, totalCalls, trace, handlerCalls,
                   handlerOut, appends, wake>>

\* the started unit: if p := recover(); p != nil { panicChan <- p }
BgRecover ==
    /\ unit["bg"].mode = "panic"
    /\ unit["bg"].stack = <<>>
    /\ unit["bg"].pval # Nil => Len(panicChan) < 1
    /\ panicChan' = IF unit["bg"].pval # Nil
                    THEN Append(panicChan, unit["bg"].pval)
                    ELSE panicChan
    /\ unit' = [unit EXCEPT !["bg"].mode = "done"]
    /\ UNCHANGED notCallVars
    /\ UNCHANGED <<chain, dt, ctxCanceled, ctx2Err, respChan, extraFields,
                   logs, inflight, totalCalls, trace, handlerCalls, handlerOut,
                   appends, wake>>

------------------------------------------------------------------------------
(* The environment *)

\* the caller hangs up: the incoming context and its children are canceled
Cancel ==
    /\ ~ctxCanceled
    /\ ctxCanceled' = TRUE
    /\ ctx2Err' = CancelCtx2(ctx2Err)
    /\ UNCHANGED notCallVars
    /\ UNCHANGED <<chain, dt, unit, respChan, panicChan, extraFields, logs,
                   inflight, totalCalls, trace, handlerCalls, handlerOut,
                   appends, wake>>

\* dt has elapsed since ctx2 was created
TimerFire ==
    /\ ctx2Err = "none"
    /\ ctx2Err' = "DeadlineExceeded"
    /\ UNCHANGED notCallVars
    /\ UNCHANGED <<chain, dt, ctxCanceled, unit, respChan, panicChan,
                   extraFields, logs, inflight, totalCalls, trace,
                   handlerCalls, handlerOut, appends, wake>>

Next ==
    \/ \E u \in Units :
         \/ EnterRecovery(u)
         \/ EnterLogging(u)
         \/ EnterEntry(u)
         \/ EnterGeoIPLogging(u)
         \/ EnterEntryLogs(u)
         \/ EnterPrometheus(u)
         \/ HandlerStart(u)
         \/ HandlerAppendField(u)
         \/ HandlerAppendFields(u)
         \/ HandlerReturn(u)
         \/ HandlerPanic(u)
         \/ ExitRecovery(u)
         \/ ExitPassThrough(u)
         \/ ExitEntryLogs(u)
         \/ ExitPrometheus(u)
    \/ TimeoutCanceledOnEntry
    \/ TimeoutDirect
    \/ TimeoutSpawn
    \/ SelectPanic
    \/ SelectResp
    \/ SelectDone
    \/ CheckParent
    \/ BgSend
    \/ BgRecover
    \/ Cancel
    \/ TimerFire

Spec == Init /\ [][Next]_vars

------------------------------------------------------------------------------
(* Properties *)

\* the chain has returned to its caller
MainReturned == unit["main"].mode = "ret" /\ unit["main"].stack = <<>>

\* a panic has left the outermost interceptor
MainPanicked == unit["main"].mode = "panic" /\ unit["main"].stack = <<>>

\* both units have finished
AllDone == (MainReturned \/ MainPanicked) /\ unit["bg"].mode \in {"idle", "done"}

HasStage(st) == \E i \in 1..Len(chain) : chain[i] = st

Idx(st) == CHOOSE i \in 1..Len(chain) : chain[i] = st

\* stage i has just been left by unit u
Left(u, st) ==
    /\ unit[u].stack # <<>>
    /\ Top(u).stage = st
    /\ unit'[u].stack = Pop(unit[u].stack)

IsPanicRecord(r) ==
    r.level = "error" /\ "stacktrace" \in DOMAIN r.fields /\ r.fields["stacktrace"] # ""

IsCaughtPanic(r) == r.msg = "Caught panic in request"

PanicRecords == {i \in 1..Len(logs) : IsPanicRecord(logs[i])}

CaughtPanicRecords == {i \in 1..Len(logs) : IsCaughtPanic(logs[i])}

IsCompletion(r) == r.msg \in {"Request completed", "Request completed with error"}

CompletionRecords == {i \in 1..Len(logs) : IsCompletion(logs[i])}

\* C1: a context that is already canceled when the Timeout guard is entered
\* makes the guard return (nil, Canceled) without ever invoking the handler,
\* whatever the configured timeout is.
C1_PreCanceledNeverRuns ==
    trace.guard = "canceled" =>
        /\ handlerCalls = 0
        /\ unit["bg"].mode = "idle"
        /\ unit["main"].mode = "ret"
        /\ unit["main"].res = CanceledByCaller

C1_Witness ==
    /\ chain = <<"Timeout">>
    /\ dt = 0
    /\ trace.guard = "canceled"
    /\ MainReturned

\* the Timeout guard ended on ctx2.Done() and has checked the parent
GuardEndedOnDone == wake \in {"doneCanceled", "doneDeadline"}

\* C2 as stated: the guard ending on ctx2.Done() returns DeadlineExceeded
\* when the deadline passed before any cancellation and Canceled when the
\* caller canceled before the deadline (ctx2.Err() tells which came first).
C2_CauseThatCameFirst ==
    GuardEndedOnDone =>
        /\ ctx2Err = "DeadlineExceeded" => unit["main"].res = DeadlineExceeded
        /\ ctx2Err = "Canceled" => unit["main"].res = CanceledByCaller

\* C2 amended: the guard ending on ctx2.Done() returns Canceled iff the
\* parent context is canceled at the moment the guard checks it, and
\* DeadlineExceeded otherwise; a cancellation before the deadline therefore
\* always gives Canceled, and DeadlineExceeded is only given after the
\* timer fired.
C2_CauseAtCheck ==
    /\ wake = "doneCanceled" => unit["main"].res = CanceledByCaller
    /\ wake = "doneDeadline" =>
          unit["main"].res = DeadlineExceeded /\ ctx2Err = "DeadlineExceeded"
    /\ (GuardEndedOnDone /\ ctx2Err = "Canceled") => unit["main"].res = CanceledByCaller
    /\ GuardEndedOnDone => unit["main"].mode = "ret"

\* the timer fired first, the caller canceled before the guard's check
C2_Witness ==
    /\ wake = "doneCanceled"
    /\ ctx2Err = "DeadlineExceeded"
    /\ unit["main"].res = CanceledByCaller

\* C3 as stated: with a positive timeout, when the handler returned and its
\* result was put on respChan while ctx2 was not yet done (no timer expiry,
\* no cancellation so far), the guard returns exactly the pair the handler
\* returned.
C3_PassThroughBeforeTimeout ==
    (/\ HasStage("Timeout")
     /\ dt > 0
     /\ Idx("Timeout") \in trace.exited
     /\ unit["main"].mode = "ret"
     /\ handlerOut.kind = "ret"
     /\ handlerOut.sent = "none")
    => unit["main"].res = handlerOut.res

\* C4 as stated: in the full chain a call whose handler panicked ends with
\* an Internal error for the caller and exactly one error-level record that
\* carries a stack trace.
C4_PanicGivesInternal ==
    (chain = FullChain /\ AllDone /\ handlerOut.kind = "panic") =>
        /\ MainReturned
        /\ unit["main"].res.err.code = "Internal"
        /\ Cardinality(PanicRecords) = 1

\* C5 as stated: in the full chain no panic leaves the outermost stage, and
\* a handler panic produces a 'Caught panic in request' record.
C5_PanicContainedAndLogged ==
    chain = FullChain =>
        /\ ~MainPanicked
        /\ (AllDone /\ handlerOut.kind = "panic") => CaughtPanicRecords # {}

\* C6 as stated: after a fault the Recovery guard returns (nil, Internal
\* "InternalServerError"), whatever value the handler panicked with.
C6_FaultResultFixed ==
    (chain = <<"Recovery">> /\ MainReturned /\ handlerOut.kind = "panic")
    => unit["main"].res = InternalServerError

\* C7: when the handler wrapped by Recovery returns, Recovery returns the
\* same response and error (a non-nil error included) and logs nothing.
C7_RecoveryNoEffectOnReturn ==
    [][\A u \in Units :
          (Left(u, "Recovery") /\ unit[u].mode = "ret") =>
              /\ unit'[u].mode = "ret"
              /\ unit'[u].res = unit[u].res
              /\ logs' = logs]_vars

C7_Witness ==
    /\ chain = <<"Recovery">>
    /\ MainReturned
    /\ handlerOut.kind = "ret"
    /\ unit["main"].res = handlerOut.res
    /\ unit["main"].res.err # NoErr
    /\ logs = <<>>

\* the stage runs in the unit the Timeout guard started
InBg(i) == \E t \in 1..Len(chain) : t < i /\ chain[t] = "Timeout" /\ dt > 0

\* the order newUnaryInterceptor chains the interceptors in
ServerOrder == <<"Recovery", "Logging", "Entry", "GeoIPLogging", "EntryLogs",
                 "Prometheus", "Timeout", "Recovery">>

\* stages are entered one after the other, in the order of the chain
EnteredInOrder ==
    \A i \in trace'.entered \ trace.entered : trace.entered = 1..(i - 1)

\* C8 as stated: the stages are entered in the order of the chain and every
\* stage is left only after all stages entered inside it have been left,
\* for every call outcome.
C8_StrictNesting ==
    [][/\ EnteredInOrder
       /\ \A i \in trace'.exited \ trace.exited :
            \A j \in trace'.entered : j > i => j \in trace'.exited]_vars

\* C8 amended: the stages are entered in the order Recovery, Logging, Entry,
\* GeoIPLogging, EntryLogs, Prometheus, Timeout, Recovery, handler, and each
\* is left only after the stages inside it, except that a Timeout guard that
\* ends on ctx2.Done() (timeout or caller cancellation) is left, and the
\* stages outside it after it, while the stages it started in the other unit
\* may still be active; and a guard entered with a canceled context enters
\* none of the stages inside it.
C8_NestingUpToAbandon ==
    /\ [](Len(chain) = Len(ServerOrder) =>
            \A i \in trace.entered \cap (1..Len(chain)) : chain[i] = ServerOrder[i])
    /\ [](trace.guard = "canceled" => trace.entered = 1..Idx("Timeout"))
    /\ [][/\ EnteredInOrder
          /\ \A i \in trace'.exited \ trace.exited :
               \A j \in trace'.entered : j > i =>
                  \/ j \in trace'.exited
                  \/ (InBg(j) /\ ~InBg(i) /\ wake' \in {"doneCanceled", "doneDeadline"})]_vars

\* the call has returned DeadlineExceeded while the inner Recovery and the
\* handler are still active in the started unit
C8_Witness ==
    /\ chain = FullChain
    /\ MainReturned
    /\ unit["main"].res = DeadlineExceeded
    /\ trace.exited = 1..7
    /\ trace.entered = 1..9

\* C9: a call whose inner stages return to EntryLogs gets exactly one
\* completion record, 'Request completed with error' at error level when the
\* returned error is non-nil and 'Request completed' at info level otherwise,
\* and EntryLogs returns the inner response and error unchanged; before
\* EntryLogs is left there is no completion record.
C9_OneCompletionRecord ==
    /\ [](HasStage("EntryLogs") =>
            LET done == Idx("EntryLogs") \in trace.exited /\ unit["main"].mode = "ret"
                recs == CompletionRecords
            IN  /\ done => Cardinality(recs) = 1
                /\ ~done => recs = {}
                /\ \A i \in recs :
                     IF unit["main"].res.err # NoErr
                     THEN logs[i].level = "error" /\ logs[i].msg = "Request completed with error"
                     ELSE logs[i].level = "info" /\ logs[i].msg = "Request completed")
    /\ [][\A u \in Units :
            (Left(u, "EntryLogs") /\ unit[u].mode = "ret") =>
                unit'[u].mode = "ret" /\ unit'[u].res = unit[u].res]_vars

C9_Witness ==
    /\ chain = <<"EntryLogs">>
    /\ MainReturned
    /\ unit["main"].res.err # NoErr
    /\ \E i \in CompletionRecords : logs[i].level = "error"

\* C10: an append-field call made with a context that carries no EntryLogs
\* scope returns the 'cannot find entry logger' error, leaves every field
\* set as it was and does not panic.
C10_AppendOutsideScope ==
    [][(Len(appends') > Len(appends) /\ ~appends'[Len(appends')].scope) =>
          /\ appends'[Len(appends')].err = ErrNoEntryLogger
          /\ extraFields' = extraFields
          /\ \A u \in Units : unit'[u].mode # "panic"]_vars

C10_Witness ==
    \E i \in 1..Len(appends) :
        /\ appends[i].by = "handler"
        /\ ~appends[i].scope
        /\ appends[i].err = ErrNoEntryLogger
        /\ extraFields = EmptyFields

\* C11: inside an EntryLogs scope, an append-field(s) call that repeats the
\* call made just before it (same keys, same values) returns no error, as the
\* first did, and leaves the field set of the call as the first call left it.
C11_AppendIdempotent ==
    \A i \in 1..(Len(appends) - 1) :
        (/\ appends[i].by = "handler"
         /\ appends[i + 1].by = "handler"
         /\ appends[i].scope
         /\ appends[i + 1].fields = appends[i].fields)
        => /\ appends[i].err = Nil
           /\ appends[i + 1].err = Nil
           /\ appends[i + 1].after = appends[i].after

\* the same append of two fields was made twice
C11_Witness ==
    \E i \in 1..(Len(appends) - 1) :
        /\ appends[i].by = "handler"
        /\ appends[i + 1].by = "handler"
        /\ appends[i].scope
        /\ DOMAIN appends[i].fields = AppendKeys
        /\ appends[i + 1].fields = appends[i].fields
        /\ appends[i + 1].err = Nil
        /\ extraFields = appends[i].fields

GuardLeft == HasStage("Timeout") /\ Idx("Timeout") \in trace.exited

\* the state of the guard's state machine, by the event that ended the wait
GuardState ==
    IF ~GuardLeft THEN "Running"
    ELSE IF trace.guard = "canceled" \/ wake = "doneCanceled" THEN "Canceled"
    ELSE IF wake = "doneDeadline" THEN "TimedOut"
    ELSE "Completed"

\* what the guard handed to its caller: a result, or a panic value
GuardResult ==
    [mode |-> unit["main"].mode, res |-> unit["main"].res, pval |-> unit["main"].pval]

\* C24: a call leaves Running once, for exactly one of Completed (the
\* handler's own outcome is handed on), Canceled or TimedOut; the guard
\* hands one result to its caller, the handler is started at most once, and
\* nothing that happens later (a late handler result, a late panic, a late
\* cancellation) changes the state or the result.
C24_GuardStateMachine ==
    /\ [](HasStage("Timeout") =>
            /\ handlerCalls <= 1
            /\ ~GuardLeft => wake \in {"none", "done"}
            /\ GuardState = "Canceled" =>
                  unit["main"].mode = "ret" /\ unit["main"].res = CanceledByCaller
            /\ GuardState = "TimedOut" =>
                  unit["main"].mode = "ret" /\ unit["main"].res = DeadlineExceeded
            /\ GuardState = "Completed" =>
                  /\ handlerCalls = 1
                  /\ handlerOut.kind # "none"
                  /\ wake \in {"none", "resp", "panic"}
                  /\ chain = <<"Timeout">> =>
                        IF handlerOut.kind = "ret"
                        THEN unit["main"].mode = "ret" /\ unit["main"].res = handlerOut.res
                        ELSE unit["main"].mode = "panic" /\ unit["main"].pval = handlerOut.pval)
    /\ [][GuardLeft =>
            /\ GuardLeft'
            /\ GuardState' = GuardState
            /\ GuardResult' = GuardResult]_vars

\* the guard ended the call with DeadlineExceeded, the handler returned
\* later and its result lies in respChan, unread
C24_Witness ==
    /\ chain = <<"Timeout">>
    /\ MainReturned
    /\ GuardState = "TimedOut"
    /\ unit["bg"].mode = "done"
    /\ handlerOut.kind = "ret"
    /\ respChan = <<handlerOut.res>>
    /\ unit["main"].res = DeadlineExceeded

\* C25: when the handler, started by the guard in its own unit, panics while
\* the guard is still waiting (its context is not yet done), the guard
\* panics with the same value in the waiting unit and returns no result.
C25_PanicReRaised ==
    (/\ chain = <<"Timeout">>
     /\ dt > 0
     /\ handlerOut.kind = "panic"
     /\ handlerOut.ctx2Err = "none"
     /\ GuardLeft)
    => /\ unit["main"].mode = "panic"
       /\ unit["main"].pval = handlerOut.pval

\* the guard was built with no timeout and entered with a live context
NoTimeoutCall == chain = <<"Timeout">> /\ dt <= 0 /\ trace.guard = "live"

\* C26: with no timeout configured (zero or negative) and a context that is
\* not canceled, the handler runs once, in the caller's own unit; what it
\* returns is returned verbatim, its panic reaches the caller as it is, and
\* the guard never answers Canceled or DeadlineExceeded itself, whatever
\* happens while the handler runs.
C26_NoTimeoutRunsDirectly ==
    NoTimeoutCall =>
        /\ unit["bg"].mode = "idle"
        /\ ctx2Err = "unset"
        /\ wake = "none"
        /\ handlerCalls <= 1
        /\ unit["main"].res \notin {CanceledByCaller, DeadlineExceeded}
        /\ GuardLeft =>
              /\ handlerCalls = 1
              /\ handlerOut.kind # "none"
              /\ handlerOut.kind = "ret" =>
                    unit["main"].mode = "ret" /\ unit["main"].res = handlerOut.res
              /\ handlerOut.kind = "panic" =>
                    unit["main"].mode = "panic" /\ unit["main"].pval = handlerOut.pval

\* the caller hung up while the handler ran; the handler's answer came back
C26_Witness ==
    /\ NoTimeoutCall
    /\ dt = 0
    /\ ctxCanceled
    /\ MainReturned
    /\ handlerOut.kind = "ret"
    /\ unit["main"].res = handlerOut.res
    /\ unit["main"].res = [resp |-> "resp", err |-> NoErr]

\* ctx.Err() of a context of the call, Nil while it is live
CtxErr(ctx) ==
    IF ctx.bound = "ctx2"
    THEN IF ctx2Err \in {"Canceled", "DeadlineExceeded"} THEN ctx2Err ELSE Nil
    ELSE IF ctxCanceled THEN "Canceled" ELSE Nil

\* the guard has answered Canceled or DeadlineExceeded by itself
GuardGaveUp == GuardLeft /\ wake \in {"doneCanceled", "doneDeadline"}

\* C27: the handler runs with the original context: the guard's deadline
\* does not end the handler's context (only the caller's cancellation does);
\* when the guard answers DeadlineExceeded or Canceled it leaves the
\* handler's unit as it is, and whatever that unit delivers later stays in
\* the channels, unread, the caller keeping the guard's own answer.
C27_HandlerAbandoned ==
    /\ [](\A u \in Units :
            unit[u].mode \in {"call", "handler"} =>
                (CtxErr(unit[u].ctx) # Nil <=> ctxCanceled))
    /\ [](GuardGaveUp => /\ unit["main"].mode = "ret"
                         /\ unit["main"].res \in {CanceledByCaller, DeadlineExceeded})
    /\ [][unit["main"].mode = "woke" /\ unit'["main"].mode # "woke"
            => unit'["bg"] = unit["bg"]]_vars
    /\ [][GuardGaveUp => /\ Len(respChan') >= Len(respChan)
                         /\ Len(panicChan') >= Len(panicChan)
                         /\ unit'["main"].res = unit["main"].res]_vars

\* the guard's deadline has passed and it has answered DeadlineExceeded,
\* the handler is still running and its context is live
C27_Witness ==
    /\ GuardGaveUp
    /\ wake = "doneDeadline"
    /\ ~ctxCanceled
    /\ ctx2Err = "DeadlineExceeded"
    /\ unit["bg"].mode = "handler"
    /\ CtxErr(unit["bg"].ctx) = Nil
    /\ unit["main"].res = DeadlineExceeded

\* C31: the unit the guard started never blocks when it delivers what the
\* handler ended with, also after the guard has answered Canceled or
\* DeadlineExceeded: each of the two channels has room for the one value
\* that is sent, so the unit ends as soon as the handler has finished.
C31_AbandonedNeverBlocks ==
    HasStage("Timeout") =>
        /\ Len(respChan) + Len(panicChan) <= 1
        /\ (unit["bg"].mode = "ret" /\ unit["bg"].stack = <<>>) => ENABLED BgSend
        /\ (unit["bg"].mode = "panic" /\ unit["bg"].stack = <<>>) => ENABLED BgRecover
        /\ (GuardGaveUp /\ unit["bg"].mode = "done") =>
              \/ Len(respChan) + Len(panicChan) = 1
              \/ /\ chain = <<"Timeout">>
                 /\ handlerOut.kind = "panic"
                 /\ handlerOut.pval = Nil

\* the guard had answered DeadlineExceeded; the handler panicked later, the
\* value went into panicChan and the unit ended
C31_Witness ==
    /\ chain = <<"Timeout">>
    /\ GuardGaveUp
    /\ wake = "doneDeadline"
    /\ unit["bg"].mode = "done"
    /\ handlerOut.kind = "panic"
    /\ handlerOut.ctx2Err = "DeadlineExceeded"
    /\ panicChan = <<handlerOut.pval>>

\* C32: no unit writes the call's field set while another reads it: every
\* append made for a call comes before the Completion Logger reads the set
\* on its way out, also when the Timeout guard has abandoned a handler that
\* is still running and still appending.
C32_AppendsBeforeCompletion ==
    [][(HasStage("EntryLogs") /\ Len(appends') > Len(appends))
          => /\ Idx("EntryLogs") \notin trace.exited
             /\ ~ENABLED ExitEntryLogs("main")]_vars

C34_GeoIPAppendRejected ==
    chain = FullChain =>
        /\ \A i \in 1..Len(appends) :
             /\ appends[i].err = Nil <=> appends[i].scope
             /\ appends[i].scope <=> appends[i].by = "handler"
             /\ appends[i].by = "GeoIPLogging" =>
                  /\ appends[i].err = ErrNoEntryLogger
                  /\ appends[i].after = EmptyFields
        /\ "geoip" \notin DOMAIN extraFields
        /\ Idx("EntryLogs") \in trace.entered =>
             \E i \in 1..Len(appends) : appends[i].by = "GeoIPLogging"

C34_Witness ==
    /\ chain = FullChain
    /\ MainReturned
    /\ \E i, j \in 1..Len(appends) :
         /\ appends[i].by = "GeoIPLogging"
         /\ appends[i].err = ErrNoEntryLogger
         /\ appends[j].by = "handler"
         /\ appends[j].err = Nil
         /\ DOMAIN appends[j].after # {}

\* the names the Completion Logger computes itself
ComputedNames == {"duration", "response_status", "response_status_string"}

\* C35: an append under a reserved name inside an EntryLogs scope returns no
\* error; the completion record EntryLogs then emits carries the computed
\* duration and the status of the returned error under the three computed
\* names whatever was appended under them, and an appended 'error' field
\* stays as appended when the call returned nil and is replaced by the
\* returned error otherwise.
C35_ReservedNames ==
    /\ [](\A i \in 1..Len(appends) :
            (appends[i].scope /\ DOMAIN appends[i].fields \subseteq
                                   ComputedNames \cup {"error"})
            => appends[i].err = Nil)
    /\ [][(Len(logs') > Len(logs) /\ IsCompletion(logs'[Len(logs')])) =>
            LET r   == logs'[Len(logs')]
                res == unit["main"].res
            IN  /\ ENABLED ExitEntryLogs("main")
                /\ r.fields["duration"] = "elapsed"
                /\ r.fields["response_status"] = res.err.code
                /\ r.fields["response_status_string"] = res.err.code
                /\ res.err # NoErr => r.fields["error"] = res.err.msg
                /\ (res.err = NoErr /\ "error" \in DOMAIN extraFields)
                      => r.fields["error"] = extraFields["error"]
                /\ (res.err = NoErr /\ "error" \notin DOMAIN extraFields)
                      => "error" \notin DOMAIN r.fields]_vars

C35_Witness ==
    /\ DOMAIN extraFields = {"duration", "error"}
    /\ \E i \in CompletionRecords :
         /\ logs[i].level = "info"
         /\ logs[i].fields["duration"] = "elapsed"
         /\ logs[i].fields["error"] = AppendValue

\* C36: the Timeout guard alone, no recovery stage below it: once the guard
\* has answered Canceled or DeadlineExceeded, a panic of the handler is taken
\* by the deferred trap of the unit the guard started, which then ends; the
\* caller's unit is left as it is (its result stays, it never panics), and
\* the panic value, if it is not nil, stays unread in the panic channel.
C36_LatePanicContained ==
    /\ [][(chain = <<"Timeout">> /\ GuardGaveUp) =>
            /\ unit'["main"] = unit["main"]
            /\ unit["bg"].mode = "panic" =>
                 /\ ENABLED BgRecover
                 /\ unit'["bg"] # unit["bg"] => unit'["bg"].mode = "done"]_vars
    /\ []((/\ chain = <<"Timeout">>
           /\ GuardGaveUp
           /\ handlerOut.kind = "panic"
           /\ unit["bg"].mode = "done")
          => /\ unit["main"].mode = "ret"
             /\ unit["main"].res \in {CanceledByCaller, DeadlineExceeded}
             /\ respChan = <<>>
             /\ panicChan = IF handlerOut.pval # Nil
                            THEN <<handlerOut.pval>> ELSE <<>>)

C36_Witness ==
    /\ chain = <<"Timeout">>
    /\ GuardGaveUp
    /\ handlerOut.kind = "panic"
    /\ handlerOut.ctx2Err = "DeadlineExceeded"
    /\ unit["bg"].mode = "done"
    /\ panicChan = <<"boom">>
    /\ unit["main"].res = DeadlineExceeded

------------------------------------------------------------------------------
(* Package healthcheck: State and the rollups of CheckingResults *)

StateHealthy == 0

StateDegraded == 1

StateUnhealthy == 2

StateUnknown == 3

\* State is an int: a check function may also hand out a value that has no name
StateValues == {StateHealthy, StateDegraded, StateUnhealthy, StateUnknown,
                StateUnknown + 1}

\* the longest check list the rollups are called on
MaxResults == 3

\* the lists of at most n values of S
SeqsUpTo(S, n) == UNION {[1..k -> S] : k \in 0..n}

\* a variant without the test for an empty list
IsHealthyVacuous(checks) ==
    \A i \in 1..Len(checks) : ~(checks[i] # 0 /\ checks[i] # 1)

\* CheckingResults.IsHealthy
IsHealthy(checks) ==
    IF Len(checks) <= 0
    THEN FALSE
    ELSE \A i \in 1..Len(checks) :
            ~(checks[i] # StateHealthy /\ checks[i] # StateDegraded)

\* CheckingResults.IsDegraded
IsDegraded(checks) ==
    IF Len(checks) <= 0
    THEN FALSE
    ELSE \E i \in 1..Len(checks) : checks[i] = StateDegraded

\* a variant that lets an empty list through as healthy
GetStateOpen(checks) ==
    IF \A i \in 1..Len(checks) : checks[i] = 0 THEN 0
    ELSE IF \A i \in 1..Len(checks) : checks[i] = 0 \/ checks[i] = 1 THEN 1
    ELSE 2

\* CheckingResults.GetState
GetState(checks) ==
    IF Len(checks) <= 0
    THEN StateUnhealthy
    ELSE LET healthy == \A i \in 1..Len(checks) : checks[i] = StateHealthy
             degraded == \A i \in 1..Len(checks) :
                            checks[i] = StateHealthy \/ checks[i] = StateDegraded
         IN  IF healthy THEN StateHealthy
             ELSE IF degraded THEN StateDegraded
             ELSE StateUnhealthy

InitRollup ==
    /\ results \in SeqsUpTo(StateValues, MaxResults)
    /\ rollup = <<>>
    /\ CallIdle
    /\ HealthIdle
    /\ StateIdle
    /\ BuildIdle
    /\ ServerIdle

\* the method `name` is called on the value and returns `value`
Returns(name, value) ==
    /\ name \notin DOMAIN rollup
    /\ rollup' = [m \in (DOMAIN rollup) \cup {name} |->
                    IF m = name THEN value ELSE rollup[m]]
    /\ UNCHANGED results
    /\ UNCHANGED notRollupVars

CallIsHealthy == Returns("IsHealthy", IsHealthy(results))

CallIsDegraded == Returns("IsDegraded", IsDegraded(results))

CallGetState == Returns("GetState", GetState(results))

NextRollup ==
    \/ CallIsHealthy
    \/ CallIsDegraded
    \/ CallGetState

SpecRollup == InitRollup /\ [][NextRollup]_vars

\* the states found in the check list
StatesIn(checks) == {checks[i] : i \in 1..Len(checks)}

C13_GetState ==
    "GetState" \in DOMAIN rollup =>
        LET s == rollup["GetState"]
            all == StatesIn(results)
        IN  /\ results = <<>> => s = StateUnhealthy
            /\ results # <<>> =>
                  /\ s = StateHealthy <=> all = {StateHealthy}
                  /\ s = StateDegraded <=>
                        (all # {StateHealthy} /\ all \subseteq {StateHealthy, StateDegraded})
                  /\ s = StateUnhealthy <=>
                        ~(all \subseteq {StateHealthy, StateDegraded})
            /\ s \in {StateHealthy, StateDegraded, StateUnhealthy}

\* an unknown check next to healthy and degraded ones: unhealthy
C13_Witness ==
    /\ results = <<StateHealthy, StateUnknown, StateDegraded>>
    /\ "GetState" \in DOMAIN rollup
    /\ rollup["GetState"] = StateUnhealthy

------------------------------------------------------------------------------
(* Package healthcheck: RunChecks and runCheck *)

\* AddCheck is called at most this many times
MaxChecks == 2

\* the names AddCheck is called with, in the order of the calls
CheckNames == <<"db", "cache", "queue", "daemon">>

\* what a check function may panic with; Nil is panic(nil)
CheckPanics == {Nil, "boom"}

\* the Output of a checkingState: a text and the value formatted into it
Output(text, detail) == [text |-> text, detail |-> detail]

\* the zero value of checkingState
ZeroState == [State |-> 0, Output |-> Output("", "")]

\* the zero value of CheckingResult: make([]CheckingResult, n) holds n of them
ZeroResult == [Name |-> "", State |-> 0, Output |-> Output("", "")]

\* the ways a check function ends: it returns a CheckingState, returns an
\* error, returns (nil, nil), or panics
NoEnding == [kind |-> "none", state |-> 0, p |-> Nil]

Endings ==
    {[kind |-> "state", state |-> s, p |-> Nil] :
        s \in {StateHealthy, StateDegraded, StateUnhealthy, StateUnknown}}
    \cup {[kind |-> "error", state |-> 0, p |-> "down"],
          [kind |-> "nilnil", state |-> 0, p |-> Nil]}
    \cup {[kind |-> "panic", state |-> 0, p |-> p] : p \in CheckPanics}

\* a variant that reports an error of the check function as unknown
DeliveryErrorUnknown(e, f) ==
    IF e.kind = "error"
    THEN [send |-> TRUE,
          val |-> [State |-> 3, Output |-> [text |-> "checking failed", detail |-> e.p]]]
    ELSE IF e.kind = "state"
    THEN [send |-> TRUE,
          val |-> [State |-> e.state, Output |-> [text |-> "OK", detail |-> ToString(f)]]]
    ELSE LET p == IF e.kind = "nilnil" THEN "nil pointer dereference" ELSE e.p
         IN  IF p # "nil"
             THEN [send |-> TRUE,
                   val |-> [State |-> 2, Output |-> [text |-> "checking panicked", detail |-> p]]]
             ELSE [send |-> FALSE, val |-> [State |-> 0, Output |-> [text |-> "", detail |-> ""]]]

\* a variant that reads the fields of a nil state as zero values
DeliveryNilAsZero(e, f) ==
    IF e.kind = "error"
    THEN [send |-> TRUE,
          val |-> [State |-> 2, Output |-> [text |-> "checking failed", detail |-> e.p]]]
    ELSE IF e.kind = "state"
    THEN [send |-> TRUE,
          val |-> [State |-> e.state, Output |-> [text |-> "OK", detail |-> ToString(f)]]]
    ELSE IF e.kind = "nilnil"
    THEN [send |-> TRUE,
          val |-> [State |-> 0, Output |-> [text |-> "", detail |-> ""]]]
    ELSE IF e.p # "nil"
    THEN [send |-> TRUE,
          val |-> [State |-> 2, Output |-> [text |-> "checking panicked", detail |-> e.p]]]
    ELSE [send |-> FALSE, val |-> [State |-> 0, Output |-> [text |-> "", detail |-> ""]]]

\* the unit runCheck starts for the check function f: what it sends on
\* doneChan when f ends with e, if it sends at all. r.State of a nil r is a
\* panic of the runtime; recover() yields the panic value, and the deferred
\* function sends only for a value that is not nil.
Delivery(e, f) ==
    IF e.kind = "error"
    THEN [send |-> TRUE,
          val |-> [State |-> StateUnhealthy, Output |-> Output("checking failed", e.p)]]
    ELSE IF e.kind = "state"
    THEN [send |-> TRUE,
          val |-> [State |-> e.state, Output |-> Output("OK", ToString(f))]]
    ELSE LET p == IF e.kind = "nilnil" THEN "nil pointer dereference" ELSE e.p
         IN  IF p # Nil
             THEN [send |-> TRUE,
                   val |-> [State |-> StateUnhealthy,
                            Output |-> Output("checking panicked", p)]]
             ELSE [send |-> FALSE, val |-> ZeroState]

\* a variant that reports a context that is done as unhealthy
RunCheckOnDoneUnhealthy(err, ctxErr) ==
    [State |-> 2, Output |-> [text |-> "checking timeout", detail |-> err]]

\* runCheck, case <-ctxTimeout.Done(): err is ctxTimeout.Err(), ctxErr is
\* ctx.Err() of the context runCheck was given
RunCheckOnDone(err, ctxErr) ==
    IF err # ctxErr
    THEN [State |-> StateUnknown, Output |-> Output("checking timeout", err)]
    ELSE [State |-> StateUnknown, Output |-> Output("checking canceled by caller", err)]

\* a variant that fills the slots in the order the checks complete
StoreResultInOrderOfCompletion(rs, idx, name, r) ==
    LET free == {j \in 1..Len(rs) : rs[j].Name = ""}
        slot == IF free = {} THEN idx ELSE CHOOSE j \in free : \A k \in free : j <= k
    IN  [rs EXCEPT ![slot] = [Name |-> name, State |-> r.State, Output |-> r.Output]]

\* ress[idx] = CheckingResult{Name: check.Name, State: r.State, Output: r.Output}
StoreResult(rs, idx, name, r) ==
    [rs EXCEPT ![idx] = [Name |-> name, State |-> r.State, Output |-> r.Output]]

\* a check before its goroutine is started; out, outErr, via and viaErr are
\* history: how the check function ended and ctxTimeout.Err() then, which
\* case the select of runCheck took and ctxTimeout.Err() then
IdleCheck == [pc |-> "idle", fn |-> "idle", val |-> ZeroState,
              terr |-> "unset", out |-> NoEnding, outErr |-> "unset",
              via |-> "none", viaErr |-> "unset"]

InitHealth ==
    /\ HealthIdle
    /\ CallIdle
    /\ RollupIdle
    /\ StateIdle
    /\ BuildIdle
    /\ ServerIdle

\* h.Checks = append(h.Checks, checkFunc{Name: name, Func: f}), f a new function
AddCheck(name) ==
    /\ runPC = "idle"
    /\ Len(hChecks) < MaxChecks
    /\ name = CheckNames[Len(hChecks) + 1]
    /\ hChecks' = Append(hChecks, [Name |-> name, Func |-> Len(hChecks) + 1])
    /\ UNCHANGED <<callerErr, runPC, ress, wg, check, report>>
    /\ UNCHANGED notHealthVars

\* RunChecks is called: without checks it returns at once, otherwise ress is
\* made and the loop over h.Checks begins
RunChecksStart ==
    /\ runPC = "idle"
    /\ IF Len(hChecks) <= 0
       THEN /\ runPC' = "returned"
            /\ report' = <<>>
            /\ UNCHANGED <<ress, check>>
       ELSE /\ runPC' = "loop"
            /\ ress' = [i \in 1..Len(hChecks) |-> ZeroResult]
            /\ check' = [i \in 1..Len(hChecks) |-> IdleCheck]
            /\ UNCHANGED report
    /\ UNCHANGED <<hChecks, callerErr, wg>>
    /\ UNCHANGED notHealthVars

\* the index the loop of RunChecks is at
LoopIdx == Cardinality({i \in 1..Len(check) : check[i].pc # "idle"}) + 1

\* one turn of the loop: wg.Add(1) and a goroutine that enters runCheck,
\* which creates ctxTimeout, starts the unit calling f and goes to its select
Spawn ==
    /\ runPC = "loop"
    /\ wg' = wg + 1
    /\ check' = [check EXCEPT ![LoopIdx] =
                    [@ EXCEPT !.pc = "select", !.fn = "run", !.terr = callerErr]]
    /\ runPC' = IF LoopIdx = Len(hChecks) THEN "wait" ELSE "loop"
    /\ UNCHANGED <<hChecks, callerErr, ress, report>>
    /\ UNCHANGED notHealthVars

\* the check function ends; its unit sends on doneChan (and blocks until the
\* value is received) or ends without sending
FnEnds(i) ==
    /\ check[i].fn = "run"
    /\ \E e \in Endings :
         LET d == Delivery(e, hChecks[i].Func)
         IN  check' = [check EXCEPT ![i] =
                          [@ EXCEPT !.fn = IF d.send THEN "send" ELSE "exit",
                                    !.val = d.val,
                                    !.out = e,
                                    !.outErr = check[i].terr]]
    /\ UNCHANGED <<hChecks, callerErr, runPC, ress, wg, report>>
    /\ UNCHANGED notHealthVars

\* a variant of runCheck that never calls cancel()
CancelCtxTimeoutMissing(e) == e

\* cancel() of ctxTimeout, deferred by runCheck: Err() of a context that is
\* already done stays what it is
CancelCtxTimeout(e) == IF e = "none" THEN "Canceled" ELSE e

\* runCheck, case r := <-doneChan: return r (and the deferred cancel());
\* the goroutine of check i stores the result and calls wg.Done()
RunCheckResult(i) ==
    /\ check[i].pc = "select"
    /\ check[i].fn = "send"
    /\ ress' = StoreResult(ress, i, hChecks[i].Name, check[i].val)
    /\ wg' = wg - 1
    /\ check' = [check EXCEPT ![i] =
                    [@ EXCEPT !.pc = "done", !.fn = "exit", !.val = ZeroState,
                              !.via = "result", !.viaErr = check[i].terr,
                              !.terr = CancelCtxTimeout(check[i].terr)]]
    /\ UNCHANGED <<hChecks, callerErr, runPC, report>>
    /\ UNCHANGED notHealthVars

\* runCheck, case <-ctxTimeout.Done(): unknown is returned; the goroutine
\* of check i stores the result and calls wg.Done()
RunCheckDone(i) ==
    /\ check[i].pc = "select"
    /\ check[i].terr \in {"Canceled", "DeadlineExceeded"}
    /\ ress' = StoreResult(ress, i, hChecks[i].Name,
                           RunCheckOnDone(check[i].terr, callerErr))
    /\ wg' = wg - 1
    /\ check' = [check EXCEPT ![i] =
                    [@ EXCEPT !.pc = "done", !.via = "done",
                              !.viaErr = check[i].terr,
                              !.terr = CancelCtxTimeout(check[i].terr)]]
    /\ UNCHANGED <<hChecks, callerErr, runPC, report>>
    /\ UNCHANGED notHealthVars

\* wg.Wait() is over: RunChecks returns CheckingResults{Checks: ress}
RunChecksReturn ==
    /\ runPC = "wait"
    /\ wg = 0
    /\ runPC' = "returned"
    /\ report' = ress
    /\ UNCHANGED <<hChecks, callerErr, ress, wg, check>>
    /\ UNCHANGED notHealthVars

\* a variant in which ctxTimeout has no deadline of its own
CheckTimerNever(i) ==
    /\ FALSE
    /\ UNCHANGED vars

\* the timeout of check i has elapsed since its ctxTimeout was created
CheckTimerFire(i) ==
    /\ check[i].terr = "none"
    /\ check' = [check EXCEPT ![i].terr = "DeadlineExceeded"]
    /\ UNCHANGED <<hChecks, callerErr, runPC, ress, wg, report>>
    /\ UNCHANGED notHealthVars

\* the context RunChecks was called with ends: canceled, or its own deadline
CallerEnds ==
    /\ callerErr = "none"
    /\ runPC # "returned"
    /\ \E e \in {"Canceled", "DeadlineExceeded"} :
         /\ callerErr' = e
         /\ check' = [i \in 1..Len(check) |->
                        IF check[i].terr = "none"
                        THEN [check[i] EXCEPT !.terr = e]
                        ELSE check[i]]
    /\ UNCHANGED <<hChecks, runPC, ress, wg, report>>
    /\ UNCHANGED notHealthVars

NextHealth ==
    \/ \E i \in 1..Len(CheckNames) : AddCheck(CheckNames[i])
    \/ RunChecksStart
    \/ Spawn
    \/ \E i \in 1..Len(check) : FnEnds(i)
    \/ \E i \in 1..Len(check) : RunCheckResult(i)
    \/ \E i \in 1..Len(check) : RunCheckDone(i)
    \/ \E i \in 1..Len(check) : CheckTimerFire(i)
    \/ RunChecksReturn
    \/ CallerEnds

SpecHealth == InitHealth /\ [][NextHealth]_vars

\* RunChecks under a fair scheduler: every goroutine that can take a step
\* eventually takes it and timers fire when their time has come; nothing is
\* assumed about the check functions or the caller's context
SpecHealthFair ==
    /\ SpecHealth
    /\ WF_vars(Spawn)
    /\ WF_vars(RunChecksReturn)
    /\ \A i \in 1..MaxChecks :
         /\ WF_vars(i \in 1..Len(check) /\ CheckTimerFire(i))
         /\ WF_vars(i \in 1..Len(check) /\ RunCheckResult(i))
         /\ WF_vars(i \in 1..Len(check) /\ RunCheckDone(i))

\* check i has gone through runCheck and its result is stored
Finished(i) == check[i].pc = "done"

\* the state and the output of an entry
Outcome(e) == [State |-> e.State, Output |-> e.Output]

\* C14: at any moment slot i of the result list is either still unfilled or
\* holds the name of the i-th registered check with the outcome produced
\* for that check; the list RunChecks returns has one entry per registered
\* check and none of them is unfilled, whatever the order of completion.
C14_RegistrationOrder ==
    /\ \A i \in 1..Len(ress) :
         IF Finished(i)
         THEN /\ ress[i].Name = hChecks[i].Name
              /\ ress[i].Name = CheckNames[i]
              /\ check[i].via = "result" =>
                    Outcome(ress[i]) = Delivery(check[i].out, hChecks[i].Func).val
              /\ check[i].via = "done" =>
                    /\ ress[i].State = StateUnknown
                    /\ ress[i].Output.detail = check[i].viaErr
                    /\ ress[i].Output.text \in {"checking timeout",
                                                "checking canceled by caller"}
         ELSE ress[i] = ZeroResult
    /\ runPC = "returned" =>
         /\ Len(report) = Len(hChecks)
         /\ report = ress
         /\ \A i \in 1..Len(report) : Finished(i) /\ report[i] # ZeroResult

\* the second check has completed before the first, and the first one then
\* completed with an outcome of its own
C14_Witness ==
    /\ runPC = "returned"
    /\ Len(report) = MaxChecks
    /\ report[1].Name = "db"
    /\ report[1].Output = Output("OK", "1")
    /\ report[1].State = StateDegraded
    /\ report[MaxChecks].Output = Output("checking failed", "down")

\* C15 as stated: a check whose function had not ended when its timeout
\* elapsed gets unknown; a check whose report was received before any
\* timeout keeps the state its function returned; and when RunChecks has
\* returned every check has either reported or timed out.
C15_ReportedOrTimedOut ==
    /\ \A i \in 1..Len(check) : Finished(i) =>
         /\ (callerErr = "none" /\ check[i].outErr = "DeadlineExceeded") =>
               ress[i].State = StateUnknown
         /\ (check[i].via = "result" /\ check[i].viaErr = "none"
             /\ check[i].out.kind = "state") =>
               ress[i].State = check[i].out.state
    /\ runPC = "returned" =>
         \A i \in 1..Len(check) :
            \/ check[i].via = "result"
            \/ check[i].via = "done" /\ check[i].viaErr = "DeadlineExceeded"

\* C15 amended: a check for which runCheck finds its context done before it
\* has received a report gets unknown, and the context is done only once the
\* individual timeout has elapsed or the caller's context has ended; every
\* check whose report runCheck receives keeps the state its function
\* returned, also when the timeout elapsed just before; a check whose
\* function has not ended or ended without a report is never given anything
\* but unknown; and when RunChecks has returned every check has reported,
\* timed out or been ended by the caller's context, whether its function has
\* returned or not.
C15_ReportedOrDone ==
    /\ \A i \in 1..Len(check) : Finished(i) =>
         /\ check[i].via \in {"result", "done"}
         /\ check[i].via = "done" =>
               /\ ress[i].State = StateUnknown
               /\ check[i].viaErr \in {"DeadlineExceeded", "Canceled"}
               /\ check[i].viaErr = "Canceled" => callerErr = "Canceled"
         /\ (check[i].via = "result" /\ check[i].out.kind = "state") =>
               ress[i].State = check[i].out.state
         /\ (check[i].fn = "run" \/ ~Delivery(check[i].out, i).send) =>
               ress[i].State = StateUnknown
    /\ runPC = "returned" => \A i \in 1..Len(check) : Finished(i)

\* RunChecks has returned while the function of the second check is still
\* running: the first check is healthy, the second unknown by its timeout
C15_Witness ==
    /\ runPC = "returned"
    /\ callerErr = "none"
    /\ Len(report) = MaxChecks
    /\ report[1].State = StateHealthy
    /\ check[MaxChecks].fn = "run"
    /\ report[MaxChecks].State = StateUnknown
    /\ report[MaxChecks].Output = Output("checking timeout", "DeadlineExceeded")

\* C16 as stated: a check whose function panicked or returned an error
\* before its timeout, and whose unit has ended, has an unhealthy entry with
\* the fault or the error in its output.
C16_FaultGivesUnhealthy ==
    \A i \in 1..Len(check) :
        (/\ Finished(i)
         /\ check[i].out.kind \in {"panic", "error", "nilnil"}
         /\ check[i].outErr = "none"
         /\ check[i].fn = "exit")
        => /\ ress[i].State = StateUnhealthy
           /\ ress[i].Output.text \in {"checking panicked", "checking failed"}

\* C17 as stated: an entry is unknown only if runCheck ended on the context
\* of the check being done (its timeout, or the caller's context).
C17_UnknownOnlyOnDone ==
    \A i \in 1..Len(check) :
        (Finished(i) /\ ress[i].State = StateUnknown) => check[i].via = "done"

\* C17 amended: an entry is unknown only if runCheck ended on the context of
\* the check being done (its timeout, or the caller's context), or if the
\* check function itself returned the state unknown; an error, a panic or a
\* function returning another state never gives unknown.
C17_UnknownOnDoneOrReturned ==
    \A i \in 1..Len(check) :
        (Finished(i) /\ ress[i].State = StateUnknown) =>
            \/ /\ check[i].via = "done"
               /\ check[i].viaErr \in {"DeadlineExceeded", "Canceled"}
            \/ /\ check[i].via = "result"
               /\ check[i].out.kind = "state"
               /\ check[i].out.state = StateUnknown

\* one entry is unknown because its function returned unknown in time, the
\* other because the caller's context was canceled
C17_Witness ==
    /\ runPC = "returned"
    /\ Len(report) = MaxChecks
    /\ check[1].via = "result"
    /\ check[1].viaErr = "none"
    /\ report[1].State = StateUnknown
    /\ report[MaxChecks].Output = Output("checking canceled by caller", "Canceled")

\* C28: when runCheck ends a check because a context ended, the entry says
\* 'checking canceled by caller' iff the enclosing context has ended by then
\* (canceled, or past its own deadline) and 'checking timeout' iff only the
\* check's own deadline has expired, under every interleaving of the two.
C28_Attribution ==
    [][\A i \in 1..Len(check) :
          (/\ check[i].pc = "select"
           /\ i \in 1..Len(check')
           /\ check'[i].pc = "done"
           /\ check'[i].via = "done")
          => /\ ress'[i].Output.text = "checking canceled by caller"
                   <=> callerErr # "none"
             /\ ress'[i].Output.text = "checking timeout"
                   <=> callerErr = "none"]_vars

\* C29: RunChecks always terminates: whatever the registered check
\* functions do, also if some never return, a call of RunChecks eventually
\* returns a report in which every entry is filled.
C29_RunChecksTerminates ==
    (runPC # "idle") ~>
        (/\ runPC = "returned"
         /\ Len(report) = Len(hChecks)
         /\ \A i \in 1..Len(report) : report[i].Name = hChecks[i].Name)

\* RunChecks has returned a full report while no check function has returned
C29_Witness ==
    /\ runPC = "returned"
    /\ Len(hChecks) = MaxChecks
    /\ Len(report) = Len(hChecks)
    /\ \A i \in 1..Len(check) : check[i].fn = "run"
    /\ \A i \in 1..Len(report) :
         report[i].Name = hChecks[i].Name /\ report[i].State = StateUnknown

\* C30: the unit running a check function that ends (returns, fails or
\* panics) after runCheck has already answered timeout or cancellation for
\* the check terminates: it is never left trying to deliver its result with
\* nobody to receive it.
C30_NoBlockedUnit ==
    [][\A i \in 1..Len(check) :
          (/\ check[i].pc = "done"
           /\ check[i].via = "done"
           /\ check[i].fn = "run"
           /\ i \in 1..Len(check')
           /\ check'[i].fn # "run")
          => check'[i].fn = "exit"]_vars

\* the entry of a check whose function dereferenced a nil state
NilStateEntry(name) ==
    [Name |-> name, State |-> StateUnhealthy,
     Output |-> Output("checking panicked", "nil pointer dereference")]

\* C38: a check function that returns a nil state with a nil error makes
\* runCheck's goroutine panic on r.State; the deferred trap takes the panic
\* and sends an unhealthy state with 'checking panicked' in its output, so
\* the entry of that check, once runCheck has received what the goroutine
\* sent, is unhealthy with that output. RunChecks still returns a full list,
\* and every other entry holds what its own check delivered.
C38_NilStateTrapped ==
    \A i \in 1..Len(check) :
        check[i].out.kind = "nilnil" =>
            /\ (Finished(i) /\ check[i].via = "result") =>
                  ress[i] = NilStateEntry(hChecks[i].Name)
            /\ \A j \in 1..Len(check) :
                  (j # i /\ Finished(j) /\ check[j].via = "result") =>
                      /\ ress[j].Name = hChecks[j].Name
                      /\ Outcome(ress[j]) = Delivery(check[j].out, hChecks[j].Func).val
            /\ runPC = "returned" =>
                  /\ Len(report) = Len(hChecks)
                  /\ \A j \in 1..Len(report) : report[j].Name = hChecks[j].Name

C38_Witness ==
    /\ runPC = "returned"
    /\ Len(report) = MaxChecks
    /\ check[1].out.kind = "nilnil"
    /\ check[1].via = "result"
    /\ report[1] = NilStateEntry("db")
    /\ check[MaxChecks].via = "result"
    /\ report[MaxChecks].State = StateHealthy

\* C39: once runCheck has returned for a check, on its timeout, on the
\* caller's context ending or after receiving the function's report, the
\* context the check function was given is done; a function that is still
\* running by then, abandoned, finds Err() set on its context.
C39_ContextEndsWithRunCheck ==
    /\ \A i \in 1..Len(check) :
         Finished(i) =>
            /\ check[i].terr \in {"Canceled", "DeadlineExceeded"}
            /\ check[i].via = "done" => check[i].terr = check[i].viaErr
            /\ check[i].fn = "run" => check[i].via = "done"
    /\ runPC = "returned" =>
         \A i \in 1..Len(check) : check[i].terr \in {"Canceled", "DeadlineExceeded"}

\* one check was abandoned on its timeout with its function still running,
\* the other reported in time and had its context canceled on return
C39_Witness ==
    /\ Len(check) = MaxChecks
    /\ Finished(1)
    /\ check[1].via = "done"
    /\ check[1].fn = "run"
    /\ check[1].terr = "DeadlineExceeded"
    /\ Finished(MaxChecks)
    /\ check[MaxChecks].via = "result"
    /\ check[MaxChecks].viaErr = "none"
    /\ check[MaxChecks].terr = "Canceled"
    /\ callerErr = "none"

------------------------------------------------------------------------------
(* Package healthcheck: State.MarshalJSON, State.UnmarshalJSON, State.String *)

\* var stateToName = map[int]string{...}
stateToName ==
    [i \in {StateHealthy, StateDegraded, StateUnhealthy, StateUnknown} |->
        CASE i = StateHealthy -> "healthy"
          [] i = StateDegraded -> "degraded"
          [] i = StateUnhealthy -> "unhealthy"
          [] i = StateUnknown -> "unknown"]

\* a variant with two names in each other's place
nameToStateSwapped ==
    [n \in {"healthy", "degraded", "unhealthy", "unknown"} |->
        CASE n = "healthy" -> 0
          [] n = "degraded" -> 2
          [] n = "unhealthy" -> 1
          [] n = "unknown" -> 3]

\* var nameToState = map[string]State{...}
nameToState ==
    [n \in {"healthy", "degraded", "unhealthy", "unknown"} |->
        CASE n = "healthy" -> StateHealthy
          [] n = "degraded" -> StateDegraded
          [] n = "unhealthy" -> StateUnhealthy
          [] n = "unknown" -> StateUnknown]

\* State.String: the name, or "" for a value the map does not hold
String(s) == IF s \in DOMAIN stateToName THEN stateToName[s] ELSE ""

\* a JSON text: a string literal, null, a number, or text that is no JSON
JSONString(str) == [kind |-> "string", str |-> str]

\* the JSON texts UnmarshalJSON is given
JSONTexts ==
    {JSONString(n) : n \in {"healthy", "degraded", "unhealthy", "unknown",
                            "", "Healthy", "unknown ", "ok", "2"}}
    \cup {[kind |-> "null", str |-> ""], [kind |-> "number", str |-> "2"],
          [kind |-> "invalid", str |-> "healthy"]}

\* State.MarshalJSON: json.Marshal(s.String())
MarshalJSON(s) == [bytes |-> JSONString(String(s)), err |-> Nil]

\* State.UnmarshalJSON on *s = s: json.Unmarshal(b, &str) fails for text
\* that is no JSON string (and leaves str empty for null); then the name is
\* looked up and a name the map does not hold gives StateUnknown
UnmarshalJSON(s, b) ==
    IF b.kind \notin {"string", "null"}
    THEN [s |-> s, err |-> "json: cannot unmarshal into Go value of type string"]
    ELSE LET str == IF b.kind = "string" THEN b.str ELSE ""
         IN  IF str \in DOMAIN nameToState
             THEN [s |-> nameToState[str], err |-> Nil]
             ELSE [s |-> StateUnknown, err |-> Nil]

InitState ==
    /\ stateSrc \in StateValues
    /\ stateDst \in StateValues
    /\ stateBytes \in JSONTexts
    /\ stateErr = Nil
    /\ stateOps = <<>>
    /\ CallIdle
    /\ HealthIdle
    /\ RollupIdle
    /\ BuildIdle
    /\ ServerIdle

\* b, err := stateSrc.MarshalJSON()
CallMarshalJSON ==
    /\ stateOps = <<>>
    /\ stateBytes' = MarshalJSON(stateSrc).bytes
    /\ stateErr' = MarshalJSON(stateSrc).err
    /\ stateOps' = Append(stateOps, "MarshalJSON")
    /\ UNCHANGED <<stateSrc, stateDst>>
    /\ UNCHANGED notStateVars

\* err := stateDst.UnmarshalJSON(b)
CallUnmarshalJSON ==
    /\ "UnmarshalJSON" \notin {stateOps[i] : i \in 1..Len(stateOps)}
    /\ stateDst' = UnmarshalJSON(stateDst, stateBytes).s
    /\ stateErr' = UnmarshalJSON(stateDst, stateBytes).err
    /\ stateOps' = Append(stateOps, "UnmarshalJSON")
    /\ UNCHANGED <<stateSrc, stateBytes>>
    /\ UNCHANGED notStateVars

NextState ==
    \/ CallMarshalJSON
    \/ CallUnmarshalJSON

SpecState == InitState /\ [][NextState]_vars

\* the four states that have a name
NamedStates == {StateHealthy, StateDegraded, StateUnhealthy, StateUnknown}

StateNames == {"healthy", "degraded", "unhealthy", "unknown"}

\* C18: for each of the four states healthy, degraded, unhealthy, unknown,
\* UnmarshalJSON(MarshalJSON(s)) yields s, whatever the State it is called on
\* held before; and for every JSON string that is not one of the four state
\* names UnmarshalJSON yields unknown and returns no error.
C18_StateRoundTrip ==
    /\ (stateOps = <<"MarshalJSON", "UnmarshalJSON">> /\ stateSrc \in NamedStates) =>
          /\ stateDst = stateSrc
          /\ stateErr = Nil
          /\ stateBytes.kind = "string"
          /\ stateBytes.str \in StateNames
    /\ (stateOps = <<"UnmarshalJSON">> /\ stateBytes.kind = "string"
        /\ stateBytes.str \notin StateNames) =>
          /\ stateDst = StateUnknown
          /\ stateErr = Nil
    /\ (stateOps = <<"MarshalJSON">> /\ stateSrc \in NamedStates) =>
          \A s \in NamedStates \ {stateSrc} : MarshalJSON(s).bytes # stateBytes

\* degraded has gone through its JSON form and come back as degraded
C18_Witness ==
    /\ stateOps = <<"MarshalJSON", "UnmarshalJSON">>
    /\ stateSrc = StateDegraded
    /\ stateBytes = JSONString("degraded")
    /\ stateDst = StateDegraded
    /\ stateErr = Nil

------------------------------------------------------------------------------
(* Package grpcd: BuildRequestContext *)

\* A string is written as the sequence of its tokens, "" as <<>>: addresses,
\* ports, brackets, commas, blanks and other words. A header is the list of
\* its values, as metadata.MD.Get returns it.

IPv4Tokens == {"192.0.2.1", "198.51.100.7", "203.0.113.9"}

\* an IPv6 address in its canonical text form and in another form
IPv6Tokens == {"2001:db8::1", "2001:DB8::1"}

PortTokens == {":25"}

UUIDTokens == {"6ba7b810-9dad-11d1-80b4-00c04fd430c8"}

\* strings.Split(s, ",")[0]
FirstField(s) ==
    LET commas == {i \in 1..Len(s) : s[i] = ","}
    IN  IF commas = {}
        THEN s
        ELSE SubSeq(s, 1, (CHOOSE i \in commas : \A j \in commas : i <= j) - 1)

\* net.ParseIP(s): the address, or Nil
ParseIP(s) ==
    IF Len(s) = 1 /\ s[1] \in IPv4Tokens \cup IPv6Tokens THEN s[1] ELSE Nil

\* net.IP.String(): the canonical text of the address
IPString(ip) == IF ip = "2001:DB8::1" THEN "2001:db8::1" ELSE ip

\* net.SplitHostPort(s): host:port, [host]:port
SplitHostPort(s) ==
    IF Len(s) < 2 \/ s[Len(s)] \notin PortTokens
    THEN [host |-> <<>>, err |-> "missing port in address"]
    ELSE LET h == SubSeq(s, 1, Len(s) - 1)
         IN  IF h[1] = "["
             THEN IF Len(h) >= 2 /\ h[Len(h)] = "]"
                  THEN [host |-> SubSeq(h, 2, Len(h) - 1), err |-> Nil]
                  ELSE [host |-> <<>>, err |-> "missing ']' in address"]
             ELSE IF \E i \in 1..Len(h) : h[i] \in IPv6Tokens \cup PortTokens \cup {"[", "]"}
                  THEN [host |-> <<>>, err |-> "too many colons in address"]
                  ELSE [host |-> h, err |-> Nil]

\* getValidRemoteIP(s): the IP of s, without the port if s has one, or ""
getValidRemoteIP(s) ==
    LET ip == IF ParseIP(s) # Nil THEN ParseIP(s)
              ELSE IF SplitHostPort(s).err # Nil THEN Nil
              ELSE ParseIP(SplitHostPort(s).host)
    IN  IF ip = Nil THEN <<>> ELSE <<IPString(ip)>>

\* a variant that gives up when the first header that is present is not valid
remoteAddrNoFallThrough(in) ==
    IF Len(in.xff) >= 1 /\ in.xff[1] # <<>>
    THEN getValidRemoteIP(FirstField(in.xff[1]))
    ELSE IF Len(in.realip) >= 1 /\ in.realip[1] # <<>>
    THEN getValidRemoteIP(FirstField(in.realip[1]))
    ELSE IF in.peer = <<>> THEN <<>> ELSE getValidRemoteIP(in.peer[1])

\* remoteAddrFromIncomingMetadata(ctx)
remoteAddrFromIncomingMetadata(in) ==
    LET forwarded == IF Len(in.xff) >= 1 /\ in.xff[1] # <<>>
                     THEN getValidRemoteIP(FirstField(in.xff[1]))
                     ELSE <<>>
        real == IF Len(in.realip) >= 1 /\ in.realip[1] # <<>>
                THEN getValidRemoteIP(FirstField(in.realip[1]))
                ELSE <<>>
    IN  IF forwarded # <<>> THEN forwarded
        ELSE IF real # <<>> THEN real
        ELSE IF in.peer = <<>> THEN <<>>
        ELSE getValidRemoteIP(in.peer[1])

\* uuid.Parse(s) returns no error: the plain form, urn:uuid: and braces
UUIDParses(s) ==
    \/ Len(s) = 1 /\ s[1] \in UUIDTokens
    \/ Len(s) = 2 /\ s[1] = "urn:uuid:" /\ s[2] \in UUIDTokens
    \/ Len(s) = 3 /\ s[1] = "{" /\ s[2] \in UUIDTokens /\ s[3] = "}"

\* a variant that reads the header whatever the configuration says
traceIDAlwaysFromRequest(in, requestID, readCtx) ==
    IF Len(in.trace) = 0 THEN requestID
    ELSE IF ~UUIDParses(in.trace[1]) THEN requestID
    ELSE in.trace[1]

\* traceIDFromIncomingMetadata(ctx, requestID, readCtx)
traceIDFromIncomingMetadata(in, requestID, readCtx) ==
    IF ~readCtx THEN requestID
    ELSE IF Len(in.trace) = 0 THEN requestID
    ELSE IF ~UUIDParses(in.trace[1]) THEN requestID
    ELSE in.trace[1]

\* newRequestID(): a new UUID, one no request carries
RequestIDs == {<<"0e4b5cf1-5d0d-4c5b-9d7e-2a1f4a6b0001">>,
               <<"0e4b5cf1-5d0d-4c5b-9d7e-2a1f4a6b0002">>}

\* the Trace-ID headers of the incoming contexts
TraceHeaders ==
    LET u == "6ba7b810-9dad-11d1-80b4-00c04fd430c8"
    IN  {<<>>, <<<<u>>>>, <<<<"urn:uuid:", u>>>>, <<<<"{", u, "}">>>>,
         <<<<"not-a-uuid">>>>, <<<<>>>>, <<<<u, " ">>>>,
         <<<<"not-a-uuid">>, <<u>>>>, <<<<u>>, <<"not-a-uuid">>>>}

\* the X-Forwarded-For headers of the incoming contexts
ForwardedHeaders ==
    {<<>>, <<<<>>>>, <<<<"192.0.2.1">>>>, <<<<"192.0.2.1", ":25">>>>,
     <<<<"2001:DB8::1">>>>, <<<<"unknown">>>>, <<<<" ", "192.0.2.1">>>>,
     <<<<"192.0.2.1", ",", " ", "198.51.100.7">>>>,
     <<<<"unknown", ",", "192.0.2.1">>>>,
     <<<<"unknown">>, <<"192.0.2.1">>>>}

\* the X-Real-Ip headers of the incoming contexts
RealIPHeaders ==
    {<<>>, <<<<"198.51.100.7">>>>, <<<<"unknown">>>>,
     <<<<"198.51.100.7", ",", "192.0.2.1">>>>, <<<<"198.51.100.7", ":25">>>>}

\* peer.FromContext(ctx): no peer, or the text of its address
Peers ==
    {<<>>, <<<<"203.0.113.9", ":25">>>>, <<<<"[", "2001:db8::1", "]", ":25">>>>,
     <<<<"203.0.113.9">>>>, <<<<"@">>>>}

InitBuild ==
    /\ incoming \in [trace : TraceHeaders, xff : ForwardedHeaders,
                     realip : RealIPHeaders, peer : Peers]
    /\ entryConfigs \in [AllowTraceIDFromRequest : BOOLEAN]
    /\ reqCtx = [built |-> FALSE, requestID |-> <<>>, traceID |-> <<>>,
                 remoteAddr |-> <<>>]
    /\ CallIdle
    /\ HealthIdle
    /\ RollupIdle
    /\ StateIdle
    /\ ServerIdle

\* BuildRequestContext(ctx, c)
BuildRequestContext ==
    /\ ~reqCtx.built
    /\ \E requestID \in RequestIDs :
         reqCtx' = [built |-> TRUE,
                    requestID |-> requestID,
                    traceID |-> traceIDFromIncomingMetadata(incoming, requestID,
                                   entryConfigs.AllowTraceIDFromRequest),
                    remoteAddr |-> remoteAddrFromIncomingMetadata(incoming)]
    /\ UNCHANGED <<incoming, entryConfigs>>
    /\ UNCHANGED notBuildVars

NextBuild == BuildRequestContext

SpecBuild == InitBuild /\ [][NextBuild]_vars

\* the texts that are a syntactically valid UUID
ValidUUIDTexts ==
    UNION {{<<u>>, <<"urn:uuid:", u>>, <<"{", u, "}">>} : u \in UUIDTokens}

\* the caller supplied a trace header whose first value is a valid UUID
ValidTraceSupplied ==
    /\ incoming.trace # <<>>
    /\ incoming.trace[1] \in ValidUUIDTexts

\* C19: the trace id is the first value of the caller's trace header iff
\* AllowTraceIDFromRequest is true and that value is present and a valid
\* UUID; in every other case (flag false, header absent, value invalid) it
\* is the request id generated for this call.
C19_TraceID ==
    reqCtx.built =>
        /\ reqCtx.requestID \in RequestIDs
        /\ (entryConfigs.AllowTraceIDFromRequest /\ ValidTraceSupplied) =>
              reqCtx.traceID = incoming.trace[1]
        /\ ~(entryConfigs.AllowTraceIDFromRequest /\ ValidTraceSupplied) =>
              reqCtx.traceID = reqCtx.requestID
        /\ (incoming.trace # <<>> /\ reqCtx.traceID = incoming.trace[1]) <=>
              (entryConfigs.AllowTraceIDFromRequest /\ ValidTraceSupplied)

\* the flag is set and the first of two header values is a UUID in urn form
C19_Witness ==
    /\ reqCtx.built
    /\ entryConfigs.AllowTraceIDFromRequest
    /\ incoming.trace = <<<<"6ba7b810-9dad-11d1-80b4-00c04fd430c8">>, <<"not-a-uuid">>>>
    /\ reqCtx.traceID = <<"6ba7b810-9dad-11d1-80b4-00c04fd430c8">>
    /\ reqCtx.traceID # reqCtx.requestID

\* the text is an IP address
IsIP(s) == Len(s) = 1 /\ s[1] \in IPv4Tokens \cup IPv6Tokens

\* the first entry of a comma-separated list
FirstEntry(s) ==
    IF \E i \in 1..Len(s) : s[i] = ","
    THEN SubSeq(s, 1, (CHOOSE i \in 1..Len(s) :
                          s[i] = "," /\ \A j \in 1..(i - 1) : s[j] # ",") - 1)
    ELSE s

\* an address text without its port (and without the brackets of IPv6)
WithoutPort(s) ==
    IF Len(s) >= 2 /\ s[Len(s)] \in PortTokens
    THEN IF s[1] = "[" /\ s[Len(s) - 1] = "]"
         THEN SubSeq(s, 2, Len(s) - 2)
         ELSE SubSeq(s, 1, Len(s) - 1)
    ELSE s

\* the first value of a header, "" when the header is absent
FirstValue(h) == IF h = <<>> THEN <<>> ELSE h[1]

\* C20 as stated: the remote address is the first forwarded-for entry if it
\* is a valid IP, else the real-IP header value if it is a valid IP, else the
\* peer address with its port stripped if that is a valid IP, else "".
C20_FirstValidIP ==
    reqCtx.built =>
        reqCtx.remoteAddr =
            IF IsIP(FirstEntry(FirstValue(incoming.xff)))
            THEN FirstEntry(FirstValue(incoming.xff))
            ELSE IF IsIP(FirstValue(incoming.realip))
            THEN FirstValue(incoming.realip)
            ELSE IF IsIP(WithoutPort(FirstValue(incoming.peer)))
            THEN WithoutPort(FirstValue(incoming.peer))
            ELSE <<>>

\* the IP address a source stands for: the source is an IP address, or an IP
\* address followed by a port; the address is given in its canonical text
AddressOf(s) ==
    IF IsIP(WithoutPort(s))
    THEN <<IF WithoutPort(s)[1] = "2001:DB8::1" THEN "2001:db8::1"
           ELSE WithoutPort(s)[1]>>
    ELSE <<>>

\* C20 amended: the three sources are the first entry of the first
\* forwarded-for value, the first entry of the first real-IP value and the
\* peer address; a source is valid if it is an IP address or an IP address
\* followed by a port, and it stands for that address in canonical text,
\* without the port. The remote address is the address of the first valid
\* source in this order and "" if none is valid; building never fails.
C20_FirstValidSource ==
    reqCtx.built =>
        LET f == AddressOf(FirstEntry(FirstValue(incoming.xff)))
            r == AddressOf(FirstEntry(FirstValue(incoming.realip)))
            q == AddressOf(FirstValue(incoming.peer))
        IN  reqCtx.remoteAddr =
                IF f # <<>> THEN f ELSE IF r # <<>> THEN r ELSE q

\* the forwarded-for entry is no address, the real-IP value is: it is taken
C20_Witness ==
    /\ reqCtx.built
    /\ incoming.xff = <<<<"unknown", ",", "192.0.2.1">>>>
    /\ incoming.realip = <<<<"198.51.100.7">>>>
    /\ incoming.peer = <<<<"203.0.113.9", ":25">>>>
    /\ reqCtx.remoteAddr = <<"198.51.100.7">>

------------------------------------------------------------------------------
(* Package internal/grpcd: Server and templateService *)

\* the goroutines that call Server.serve
ServeUnits == {"a", "b"}

\* const MaxMessageLength = 500
MaxMessageLength == 500

\* an EchoRequest: a nil request, or a message given by its text and length
EchoRequests ==
    {[isNil |-> TRUE, body |-> "", len |-> 0]} \cup
    {[isNil |-> FALSE, body |-> (IF n = 0 THEN "" ELSE b), len |-> n] :
        b \in {"this-is-test-message", "aaa"},
        n \in {0, 1, 20, MaxMessageLength - 1, MaxMessageLength, MaxMessageLength + 1}}

\* r.GetMessage(): "" for a nil request
GetMessage(r) ==
    IF r.isNil THEN [body |-> "", len |-> 0] ELSE [body |-> r.body, len |-> r.len]

\* a variant that rejects only messages longer than the limit
UnaryEchoAboveLimit(r) ==
    IF GetMessage(r).len > MaxMessageLength
    THEN [called |-> TRUE, isNil |-> TRUE, body |-> "", len |-> 0,
          code |-> "InvalidArgument"]
    ELSE [called |-> TRUE, isNil |-> FALSE, body |-> GetMessage(r).body,
          len |-> GetMessage(r).len, code |-> "OK"]

\* templateService.UnaryEcho(ctx, r)
UnaryEcho(r) ==
    IF GetMessage(r).len >= MaxMessageLength
    THEN [called |-> TRUE, isNil |-> TRUE, body |-> "", len |-> 0,
          code |-> "InvalidArgument"]
    ELSE [called |-> TRUE, isNil |-> FALSE, body |-> GetMessage(r).body,
          len |-> GetMessage(r).len, code |-> "OK"]

\* Server.Serving()
Serving == serving = 1

\* a variant of the mutex that never blocks
LockNeverBlocks(u) == mutex' = u

\* s.m.Lock(): blocks while another unit holds the mutex
Lock(u) == mutex = Nil /\ mutex' = u

InitServer ==
    /\ ServerIdle
    /\ CallIdle
    /\ HealthIdle
    /\ RollupIdle
    /\ StateIdle
    /\ BuildIdle

\* a unit calls s.serve(lis)
ServeCall(u) ==
    /\ servePC[u] = "idle"
    /\ servePC' = [servePC EXCEPT ![u] = "lock"]
    /\ UNCHANGED <<serving, mutex, grpcServer, served, echoReq, echoRes>>
    /\ UNCHANGED notServerVars

\* s.m.Lock(); defer s.m.Unlock()
ServeLock(u) ==
    /\ servePC[u] = "lock"
    /\ Lock(u)
    /\ servePC' = [servePC EXCEPT ![u] = "store"]
    /\ UNCHANGED <<serving, grpcServer, served, echoReq, echoRes>>
    /\ UNCHANGED notServerVars

\* atomic.StoreInt32(&s.serving, 1)
ServeStore(u) ==
    /\ servePC[u] = "store"
    /\ serving' = 1
    /\ servePC' = [servePC EXCEPT ![u] = "Serve"]
    /\ UNCHANGED <<mutex, grpcServer, served, echoReq, echoRes>>
    /\ UNCHANGED notServerVars

\* s.s.Serve(lis) is entered: it serves unless the grpc.Server was stopped
ServeEnter(u) ==
    /\ servePC[u] = "Serve"
    /\ grpcServer' = IF grpcServer = "stopped" THEN "stopped" ELSE "serving"
    /\ servePC' = [servePC EXCEPT ![u] = "inServe"]
    /\ served' = served \cup {u}
    /\ UNCHANGED <<serving, mutex, echoReq, echoRes>>
    /\ UNCHANGED notServerVars

\* s.s.Serve(lis) returns once the grpc.Server is stopped
ServeLeave(u) ==
    /\ servePC[u] = "inServe"
    /\ grpcServer = "stopped"
    /\ servePC' = [servePC EXCEPT ![u] = "reset"]
    /\ UNCHANGED <<serving, mutex, grpcServer, served, echoReq, echoRes>>
    /\ UNCHANGED notServerVars

\* deferred: atomic.StoreInt32(&s.serving, 0)
ServeReset(u) ==
    /\ servePC[u] = "reset"
    /\ serving' = 0
    /\ servePC' = [servePC EXCEPT ![u] = "unlock"]
    /\ UNCHANGED <<mutex, grpcServer, served, echoReq, echoRes>>
    /\ UNCHANGED notServerVars

\* deferred: s.m.Unlock(); serve returns
ServeUnlock(u) ==
    /\ servePC[u] = "unlock"
    /\ mutex' = Nil
    /\ servePC' = [servePC EXCEPT ![u] = "returned"]
    /\ UNCHANGED <<serving, grpcServer, served, echoReq, echoRes>>
    /\ UNCHANGED notServerVars

\* Server.GracefulStop(): s.s.GracefulStop()
GracefulStop ==
    /\ grpcServer # "stopped"
    /\ grpcServer' = "stopped"
    /\ UNCHANGED <<serving, mutex, servePC, served, echoReq, echoRes>>
    /\ UNCHANGED notServerVars

\* a client calls UnaryEcho
CallUnaryEcho ==
    /\ \E r \in EchoRequests :
         /\ echoReq' = r
         /\ echoRes' = UnaryEcho(r)
    /\ UNCHANGED <<serving, mutex, grpcServer, servePC, served>>
    /\ UNCHANGED notServerVars

NextServer ==
    \/ \E u \in ServeUnits : ServeCall(u)
    \/ \E u \in ServeUnits : ServeLock(u)
    \/ \E u \in ServeUnits : ServeStore(u)
    \/ \E u \in ServeUnits : ServeEnter(u)
    \/ \E u \in ServeUnits : ServeLeave(u)
    \/ \E u \in ServeUnits : ServeReset(u)
    \/ \E u \in ServeUnits : ServeUnlock(u)
    \/ GracefulStop
    \/ CallUnaryEcho

SpecServer == InitServer /\ [][NextServer]_vars

\* the units that are inside serve, between its Lock and its Unlock
InServe == {u \in ServeUnits : servePC[u] \in {"store", "Serve", "inServe", "reset", "unlock"}}

\* C22: Serving() is false before serve is started, true while serve is
\* running (the grpc server's Serve is in progress), false again after serve
\* has returned; at most one serve is in progress at a time, because serve
\* holds the server's mutex from its start to its return.
C22_Serving ==
    /\ (\A u \in ServeUnits : servePC[u] \in {"idle", "lock", "returned"}) => ~Serving
    /\ (\E u \in ServeUnits : servePC[u] = "inServe") => Serving
    /\ Cardinality(InServe) <= 1
    /\ \A u \in ServeUnits : u \in InServe <=> mutex = u

\* one serve is running, a second one waits for the mutex
C22_Witness ==
    /\ servePC["a"] = "inServe"
    /\ servePC["b"] = "lock"
    /\ grpcServer = "serving"
    /\ Serving

\* C23: UnaryEcho returns the request message unchanged and no error when
\* the message is shorter than 500, and a nil response with an
\* InvalidArgument error when its length is 500 or more.
C23_UnaryEcho ==
    echoRes.called =>
        IF echoReq.len < 500
        THEN /\ ~echoRes.isNil
             /\ echoRes.body = echoReq.body
             /\ echoRes.len = echoReq.len
             /\ echoRes.code = "OK"
        ELSE /\ echoRes.isNil
             /\ echoRes.code = "InvalidArgument"

\* a message of exactly 500 characters was rejected
C23_Witness ==
    /\ echoRes.called
    /\ ~echoReq.isNil
    /\ echoReq.len = 500
    /\ echoRes.isNil
    /\ echoRes.code = "InvalidArgument"

====
